---- MODULE Spec2Model ----
(***************************************************************************)
(* OpenPlayt: the playback orchestrator (PlayerService) driving the        *)
(* ffplay-based audio backend (FFmpegAudioPlayer).                         *)
(*                                                                         *)
(* Python values are modelled as follows.                                  *)
(*   Optional[Song]  the empty sequence None, or the one-element sequence  *)
(*                   Some(song)                                            *)
(*   list[Song]      a sequence of songs                                   *)
(*   Song            a record of the fields the code reads                 *)
(*   float volume    an integer number of percent                          *)
(***************************************************************************)
EXTENDS Integers, Sequences, FiniteSets, TLC

\* ------------------------------------------------------------------ bounds
MaxLen == 3          \* longest song list a caller or an album supplies

\* ------------------------------------------------------------- Song, Album
NoNumber == -1       \* track_number is None

\* titles are ranks in string order: title 1 < title 2
Song1 == [file_path |-> "a.mp3", title |-> 1, track_number |-> NoNumber]
Song2 == [file_path |-> "b.mp3", title |-> 2, track_number |-> 1]

Songs == {Song1, Song2}

None == <<>>
Some(x) == <<x>>

\* Song.__eq__: equality is by file_path alone
SongEq(a, b) == a.file_path = b.file_path

\* every list[Song] of at most MaxLen songs
SongLists == UNION {[1..n -> Songs] : n \in 0..MaxLen}

\* the sort key of Album.ordered_songs: (track_number or 999, title)
UnknownTrackKey == 999

SortNumber(s) == IF s.track_number # NoNumber THEN s.track_number ELSE UnknownTrackKey

KeyLess(a, b) ==
    \/ SortNumber(a) < SortNumber(b)
    \/ SortNumber(a) = SortNumber(b) /\ a.title < b.title

\* insert x behind every element whose key is not greater (sorted() is stable)
RECURSIVE InsertSorted(_, _)
InsertSorted(x, sorted) ==
    IF sorted = <<>> THEN <<x>>
    ELSE IF KeyLess(x, Head(sorted)) THEN <<x>> \o sorted
    ELSE <<Head(sorted)>> \o InsertSorted(x, Tail(sorted))

RECURSIVE SortSongs(_)
SortSongs(songs) ==
    IF songs = <<>> THEN <<>>
    ELSE InsertSorted(songs[Len(songs)], SortSongs(SubSeq(songs, 1, Len(songs) - 1)))

\* Album.ordered_songs(): a new sorted list, album.songs is left alone
ordered_songs(album_songs) == SortSongs(album_songs)

\* ------------------------------------------------------------------ inputs
Positions == {0, 7}          \* seek positions, in seconds
Volumes == {50, 150}         \* set_volume arguments, in percent

\* ------------------------------------------------------------------- state
VARIABLES
    queue,           \* PlayerService._queue
    current_index,   \* PlayerService._current_index
    current_song,    \* PlayerService._current_song
    aliased,         \* the caller still holds the list object that is _queue
    audio_player,    \* the FFmpegAudioPlayer: _state, _current_file, _process, _volume
    posix,           \* os.name == "posix"
    lastOp,          \* the operation that produced this state
    pre_index,       \* _current_index when that operation began
    log,             \* the backend calls it made and the events it emitted, in order
    raised,          \* the exception it ended with, NoError if it returned
    history,         \* what the observer attached at construction has seen so far
    faulty,          \* backend calls may raise
    got,             \* the list a caller of get_queue() holds
    reader,          \* PlaytFileCartridgeReader: _file_paths, _temp_dirs
    scratch,         \* the directories tempfile.mkdtemp made: those on disk, their count
    ret,             \* the last call on the reader: its argument and what it returned
    released,        \* the ids whose recorded path cleanup has deleted
    pure,            \* a call of a function without side effects: arguments, result
    cli,             \* PlayerCLI: whether _cartridge_reader is set, its last two loads
    subject,         \* a Subject: _observers, and what its last notify delivered
    threads,         \* the two threads of the WebView host: where each stands
    host,            \* PlaytJSApi: _current_reader, and the directory of the queued files
    trace            \* the events emitted since play() on the loaded queue

vars == <<queue, current_index, current_song, aliased, audio_player, posix,
          lastOp, pre_index, log, raised, history, faulty, got,
          reader, scratch, ret, released, pure, cli, subject, threads, host, trace>>

playerVars == <<queue, current_index, current_song, aliased, audio_player, posix,
                lastOp, pre_index, log, raised, history, faulty, got>>

hostVars == <<subject, threads, host, trace>>

loaderVars == <<reader, scratch, ret, released, pure, cli, hostVars>>

\* -------------------------------------------------------- FFmpegAudioPlayer
NoFile == ""

\* The backend object.  impl tells the class.  FFmpegAudioPlayer uses state,
\* current_file, process and volume; LocalFileAudioPlayer uses current_file
\* and player.
\*   process  _process: "none" is None; "running", "suspended" (after SIGSTOP)
\*            and "exited" (ffplay -autoexit reached the end) are states of
\*            the Popen object
\*   alive    the ffplay processes this object started that are still alive
\*   peak     the most such processes alive at one moment so far
\*   player   _player: "none" is None, otherwise the vlc.State of the player
FFInit ==
    [impl |-> "ffmpeg", state |-> "idle", current_file |-> NoFile, process |-> "none",
     volume |-> 100, alive |-> 0, peak |-> 0, player |-> "none"]

ff_refresh_state(b) ==
    IF b.process # "none" /\ b.process = "exited"
    THEN [b EXCEPT !.process = "none", !.state = "idle", !.current_file = NoFile]
    ELSE b

\* terminate() and wait(), kill() after the timeout: the process is gone
ff_terminate_process(b) ==
    [b EXCEPT !.process = "none",
              !.alive = IF b.process \in {"running", "suspended"} THEN @ - 1 ELSE @]

\* subprocess.Popen starts one more ffplay and self._process now names it
ff_start_playback(b, file_path) ==
    [b EXCEPT !.process = "running", !.current_file = file_path, !.state = "playing",
              !.alive = @ + 1,
              !.peak = IF b.alive + 1 > @ THEN b.alive + 1 ELSE @]

ff_stop(b) ==
    LET b1 == IF b.process # "none" THEN ff_terminate_process(b) ELSE b
    IN [b1 EXCEPT !.state = "stopped", !.current_file = NoFile]

ff_play_without_stop(b, file_path, px) ==
    LET b1 == ff_refresh_state(b)
    IN IF /\ b1.process # "none"
          /\ b1.state = "paused"
          /\ b1.current_file = file_path
          /\ px
       THEN [b1 EXCEPT !.state = "playing", !.process = "running"]
       ELSE ff_start_playback(b1, file_path)

ff_play(b, file_path, px) ==
    LET b1 == ff_refresh_state(b)
    IN IF /\ b1.process # "none"
          /\ b1.state = "paused"
          /\ b1.current_file = file_path
          /\ px
       THEN [b1 EXCEPT !.state = "playing", !.process = "running"]
       ELSE ff_start_playback(ff_stop(b1), file_path)

ff_pause(b, px) ==
    LET b1 == ff_refresh_state(b)
    IN IF b1.process = "none" \/ b1.state # "playing" THEN b1
       ELSE IF px THEN [b1 EXCEPT !.process = "suspended", !.state = "paused"]
       ELSE ff_stop(b1)

ff_seek(b, position_secs) ==
    IF b.current_file = NoFile THEN b
    ELSE IF ~(b.state = "playing" \/ b.state = "paused") THEN b
    ELSE ff_start_playback(
             IF b.process # "none" THEN ff_terminate_process(b) ELSE b,
             b.current_file)

ClampVolume(v) == IF v < 0 THEN 0 ELSE IF v > 100 THEN 100 ELSE v

ff_set_volume(b, v) ==
    LET b1 == [b EXCEPT !.volume = ClampVolume(v)]
        current_file == b1.current_file
    IN IF b1.state = "playing" /\ current_file # NoFile
       THEN ff_start_playback(ff_terminate_process(ff_refresh_state(b1)), current_file)
       ELSE b1

ff_get_state(b) == ff_refresh_state(b).state

ff_is_playing(b) == ff_refresh_state(b).state = "playing"

\* the backend as a method left it by raising: what ran before the raise stays
\* (play and seek raise in _start_playback, after the old process is gone)
ff_failed(b, op, file_path, value, px) ==
    LET b1 == ff_refresh_state(b)
        b2 == [b EXCEPT !.volume = ClampVolume(value)]
    IN IF op = "play"
       THEN IF b1.process # "none" /\ b1.state = "paused" /\ b1.current_file = file_path /\ px
            THEN b1
            ELSE ff_stop(b1)
       ELSE IF op = "seek"
       THEN IF b.current_file # NoFile /\ b.state \in {"playing", "paused"}
            THEN ff_terminate_process(b)
            ELSE b
       ELSE IF op = "set_volume"
       THEN IF b2.state = "playing" /\ b2.current_file # NoFile
            THEN ff_terminate_process(ff_refresh_state(b2))
            ELSE b2
       ELSE IF op = "stop" THEN b
       ELSE b1

\* ----------------------------------------------------- LocalFileAudioPlayer
LFInit ==
    [impl |-> "vlc", state |-> "idle", current_file |-> NoFile, process |-> "none",
     volume |-> 100, alive |-> 0, peak |-> 0, player |-> "none"]

lf_stop(b) ==
    IF b.player # "none"
    THEN [b EXCEPT !.player = "none", !.current_file = NoFile]
    ELSE b

\* MediaPlayer.play() returns before playback has begun: the new player is
\* still opening its media
lf_play(b, file_path) ==
    [(IF b.player # "none" THEN lf_stop(b) ELSE b)
        EXCEPT !.player = "Opening", !.current_file = file_path]

\* MediaPlayer.pause() toggles between playing and paused
lf_pause(b) ==
    IF b.player = "Playing" THEN [b EXCEPT !.player = "Paused"]
    ELSE IF b.player = "Paused" THEN [b EXCEPT !.player = "Playing"]
    ELSE b

lf_seek(b, position_secs) == b

lf_get_state(b) ==
    IF b.player = "none" THEN "idle"
    ELSE IF b.player = "Playing" THEN "playing"
    ELSE IF b.player = "Paused" THEN "paused"
    ELSE IF b.player = "Stopped" THEN "stopped"
    ELSE "idle"

lf_is_playing(b) == lf_get_state(b) = "playing"

\* ------------------------------------------------------ AudioPlayerInterface
\* the method of whichever class the backend object has
backend_play(b, file_path, px) ==
    IF b.impl = "vlc" THEN lf_play(b, file_path) ELSE ff_play(b, file_path, px)

backend_pause(b, px) == IF b.impl = "vlc" THEN lf_pause(b) ELSE ff_pause(b, px)

backend_stop(b) == IF b.impl = "vlc" THEN lf_stop(b) ELSE ff_stop(b)

backend_seek(b, position_secs) ==
    IF b.impl = "vlc" THEN lf_seek(b, position_secs) ELSE ff_seek(b, position_secs)

backend_get_state(b) == IF b.impl = "vlc" THEN lf_get_state(b) ELSE ff_get_state(b)

backend_is_playing(b) == IF b.impl = "vlc" THEN lf_is_playing(b) ELSE ff_is_playing(b)

\* a query leaves the VLC backend alone and makes the ffplay one look at its process
backend_queried(b) == IF b.impl = "vlc" THEN b ELSE ff_refresh_state(b)

backend_failed(b, op, file_path, value, px) ==
    IF b.impl = "vlc" THEN b ELSE ff_failed(b, op, file_path, value, px)

\* ------------------------------------------------------------ PlayerService
NoError == ""

\* no backend call of the operation raises
NoFault == [at |-> 0, error |-> NoError]

\* The service as a value: its fields, its backend, what the running
\* operation has called and emitted so far, and which of its backend calls
\* (the at-th, none for 0) is going to raise which error.
SelfWith(fault) ==
    [queue |-> queue, current_index |-> current_index, current_song |-> current_song,
     audio_player |-> audio_player, log |-> <<>>, raised |-> NoError, fault |-> fault]

Self == SelfWith(NoFault)

\* an exception leaves the operation: what was assigned so far stays
raise(s, error) == [s EXCEPT !.raised = error]

\* a call of a method of self._audio_player
Call(op, file, value) ==
    [kind |-> "call", name |-> op, file |-> file, data |-> <<>>, value |-> value]

\* the call before it in the log raised this error
Raised(error) ==
    [kind |-> "raise", name |-> error, file |-> NoFile, data |-> <<>>, value |-> 0]

\* Observer.update(event_type, data) of the attached observer
Event(type, data, value) ==
    [kind |-> "event", name |-> type, file |-> NoFile, data |-> data, value |-> value]

IsCall(e) == e.kind = "call"

IsEvent(e) == e.kind = "event"

\* Subject.notify with one observer attached; not reached once an exception
\* is on its way out of the operation
notify(s, type, data, value) ==
    IF s.raised # NoError THEN s
    ELSE [s EXCEPT !.log = Append(@, Event(type, data, value))]

\* self._audio_player.<op>(...): the call returns and leaves the backend as
\* done, or it is the call that raises; nothing is called once an exception
\* is on its way out
Invoke(s, op, file, value, done) ==
    IF s.raised # NoError THEN s
    ELSE IF Len(SelectSeq(s.log, IsCall)) + 1 = s.fault.at
    THEN [s EXCEPT !.audio_player = backend_failed(@, op, file, value, posix),
                   !.log = @ \o << Call(op, file, value), Raised(s.fault.error) >>,
                   !.raised = s.fault.error]
    ELSE [s EXCEPT !.audio_player = done,
                   !.log = Append(@, Call(op, file, value))]

player_play_retrying(s, file_path) ==
    LET s1 == Invoke(s, "play", file_path, 0, backend_play(s.audio_player, file_path, posix))
    IN IF s1.raised # NoError /\ s.raised = NoError
       THEN [s1 EXCEPT !.audio_player = backend_play(@, file_path, posix),
                       !.log = Append(@, Call("play", file_path, 0)),
                       !.raised = NoError]
       ELSE s1

player_play(s, file_path) ==
    Invoke(s, "play", file_path, 0, backend_play(s.audio_player, file_path, posix))

player_pause(s) ==
    Invoke(s, "pause", NoFile, 0, backend_pause(s.audio_player, posix))

player_stop(s) ==
    Invoke(s, "stop", NoFile, 0, backend_stop(s.audio_player))

player_seek(s, position_secs) ==
    Invoke(s, "seek", NoFile, position_secs, backend_seek(s.audio_player, position_secs))

\* LocalFileAudioPlayer has no set_volume method: the call is an AttributeError
player_set_volume(s, volume) ==
    IF s.audio_player.impl = "vlc"
    THEN IF s.raised # NoError THEN s
         ELSE [s EXCEPT !.log = @ \o << Call("set_volume", NoFile, volume),
                                        Raised("AttributeError") >>,
                        !.raised = "AttributeError"]
    ELSE Invoke(s, "set_volume", NoFile, volume, ff_set_volume(s.audio_player, volume))

\* the two queries refresh the backend's view of its process
player_is_playing(s) ==
    Invoke(s, "is_playing", NoFile, 0, backend_queried(s.audio_player))

player_get_state(s) ==
    Invoke(s, "get_state", NoFile, 0, backend_queried(s.audio_player))

svc_load_album_autoplay(s, album_songs) ==
    LET s1 == notify([s EXCEPT !.queue = ordered_songs(album_songs),
                               !.current_index = -1,
                               !.current_song = None],
                     "album_loaded", album_songs, 0)
    IN IF s1.queue # <<>>
       THEN notify(player_play([s1 EXCEPT !.current_index = 0,
                                          !.current_song = Some(s1.queue[1])],
                               s1.queue[1].file_path),
                   "track_started", Some(s1.queue[1]), 0)
       ELSE s1

svc_load_album(s, album_songs) ==
    notify([s EXCEPT !.queue = ordered_songs(album_songs),
                     !.current_index = -1,
                     !.current_song = None],
           "album_loaded", album_songs, 0)

svc_load_queue_keep_index(s, songs) ==
    notify([s EXCEPT !.queue = songs,
                     !.current_song = None],
           "queue_loaded", songs, 0)

svc_load_queue(s, songs) ==
    notify([s EXCEPT !.queue = songs,
                     !.current_index = -1,
                     !.current_song = None],
           "queue_loaded", songs, 0)

svc_play_restart_only(s) ==
    IF s.current_song # None
    THEN notify(player_play(s, s.current_song[1].file_path),
                "track_started", s.current_song, 0)
    ELSE s

svc_play(s) ==
    LET s1 == IF s.current_song = None /\ s.queue # <<>>
              THEN [s EXCEPT !.current_index = 0, !.current_song = Some(s.queue[1])]
              ELSE s
    IN IF s1.current_song # None
       THEN notify(player_play(s1, s1.current_song[1].file_path),
                   "track_started", s1.current_song, 0)
       ELSE s1

svc_pause_unconditional(s) ==
    LET s1 == player_pause(player_is_playing(s))
    IN IF s1.current_song # None
       THEN notify(s1, "track_paused", s1.current_song, 0)
       ELSE s1

svc_pause(s) ==
    LET s1 == player_is_playing(s)
    IN IF s1.raised = NoError /\ backend_is_playing(s.audio_player)
       THEN LET s2 == player_pause(s1)
            IN IF s2.current_song # None
               THEN notify(s2, "track_paused", s2.current_song, 0)
               ELSE s2
       ELSE s1

svc_stop_keep_index(s) ==
    LET s1 == player_stop(s)
        s2 == IF s1.current_song # None
              THEN notify(s1, "track_stopped", s1.current_song, 0)
              ELSE s1
    IN [s2 EXCEPT !.current_song = None]

svc_stop_only_if_selected(s) ==
    IF s.current_song # None
    THEN [notify(player_stop(s), "track_stopped", s.current_song, 0)
             EXCEPT !.current_song = None, !.current_index = -1]
    ELSE s

svc_stop(s) ==
    LET s1 == player_stop(s)
        s2 == IF s1.current_song # None
              THEN notify(s1, "track_stopped", s1.current_song, 0)
              ELSE s1
    IN IF s2.raised # NoError THEN s2
       ELSE [s2 EXCEPT !.current_song = None, !.current_index = -1]

svc_next_needs_selection(s) ==
    IF s.queue = <<>> \/ s.current_song = None THEN s
    ELSE IF s.current_index < Len(s.queue) - 1
    THEN LET i == s.current_index + 1
             s1 == [s EXCEPT !.current_index = i, !.current_song = Some(s.queue[i + 1])]
         IN notify(player_play(s1, s1.current_song[1].file_path),
                   "track_started", s1.current_song, 0)
    ELSE notify(svc_stop(s), "queue_ended", None, 0)

svc_next_wraps(s) ==
    IF s.queue = <<>> THEN s
    ELSE LET i == IF s.current_index < Len(s.queue) - 1 THEN s.current_index + 1 ELSE 0
             s1 == [s EXCEPT !.current_index = i, !.current_song = Some(s.queue[i + 1])]
         IN notify(player_play(s1, s1.current_song[1].file_path),
                   "track_started", s1.current_song, 0)

svc_next_silent(s) ==
    IF s.queue = <<>> THEN s
    ELSE IF s.current_index < Len(s.queue) - 1
    THEN LET i == s.current_index + 1
             s1 == [s EXCEPT !.current_index = i, !.current_song = Some(s.queue[i + 1])]
         IN player_play(s1, s1.current_song[1].file_path)
    ELSE notify(svc_stop(s), "queue_ended", None, 0)

svc_next(s) ==
    IF s.queue = <<>> THEN s
    ELSE IF s.current_index < Len(s.queue) - 1
    THEN LET i == s.current_index + 1
             s1 == [s EXCEPT !.current_index = i, !.current_song = Some(s.queue[i + 1])]
         IN notify(player_play(s1, s1.current_song[1].file_path),
                   "track_started", s1.current_song, 0)
    ELSE notify(svc_stop(s), "queue_ended", None, 0)

svc_previous_noop_at_start(s) ==
    IF s.queue = <<>> THEN s
    ELSE IF s.current_index > 0
    THEN LET i == s.current_index - 1
             s1 == [s EXCEPT !.current_index = i, !.current_song = Some(s.queue[i + 1])]
         IN IF i >= Len(s.queue)
            THEN raise([s EXCEPT !.current_index = i], "IndexError")
            ELSE notify(player_play(s1, s1.current_song[1].file_path),
                        "track_started", s1.current_song, 0)
    ELSE s

\* previous() starting the current song again wherever it stands
svc_previous_replaying(s) ==
    IF s.queue = <<>> THEN s
    ELSE IF s.current_song # None
    THEN notify(player_play(s, s.current_song[1].file_path),
                "track_started", s.current_song, 0)
    ELSE s

\* self._queue[self._current_index] runs after the index was decremented and
\* raises IndexError when the list has become shorter than that
svc_previous(s) ==
    IF s.queue = <<>> THEN s
    ELSE IF s.current_index > 0
    THEN LET i == s.current_index - 1
             s1 == [s EXCEPT !.current_index = i]
             s2 == [s1 EXCEPT !.current_song = Some(s.queue[i + 1])]
         IN IF i >= Len(s.queue)
            THEN raise(s1, "IndexError")
            ELSE notify(player_play(s2, s2.current_song[1].file_path),
                        "track_started", s2.current_song, 0)
    ELSE IF s.current_song # None
    THEN notify(player_play(s, s.current_song[1].file_path),
                "track_started", s.current_song, 0)
    ELSE s

svc_seek_only_if_selected(s, position_secs) ==
    IF s.current_song # None
    THEN notify(player_seek(s, position_secs), "seeked", s.current_song, position_secs)
    ELSE s

svc_seek(s, position_secs) ==
    LET s1 == player_seek(s, position_secs)
    IN notify(s1, "seeked", s1.current_song, position_secs)

svc_set_volume(s, volume) ==
    notify(player_set_volume(s, volume), "volume_changed", None, volume)

svc_check_playback_status_not_playing(s) ==
    LET state == ff_get_state(s.audio_player)
        s1 == player_get_state(s)
    IN IF s1.current_song # None /\ state # "playing" THEN svc_next(s1) ELSE s1

svc_check_playback_status(s) ==
    LET state == backend_get_state(s.audio_player)
        s1 == player_get_state(s)
    IN IF s1.raised # NoError THEN s1
       ELSE IF s1.current_song # None /\ state = "idle" THEN svc_next(s1) ELSE s1

get_current_song == current_song

\* get_queue(): a copy of the list
get_queue == queue

\* get_queue() handing out self._queue itself
svc_get_queue_live(s) == [list |-> s.queue, live |-> TRUE]

\* get_queue(): self._queue.copy() is a new list object with the same elements
svc_get_queue(s) == [list |-> s.queue, live |-> FALSE]

\* nobody holds a list returned by get_queue(); returned and earlier are what
\* the last and the last but one get_queue() since the last load returned
NoGot == [held |-> FALSE, list |-> <<>>, live |-> FALSE, returned |-> None, earlier |-> None]

\* the backend calls and the events of the last operation, each in order
calls == SelectSeq(log, IsCall)

emitted == SelectSeq(log, IsEvent)

\* What an observer remembers of the events delivered to it: whether a queue
\* or an album was loaded, and the track of the last track_started that no
\* load and no stop has followed.
NoHistory == [loaded |-> FALSE, started |-> None]

HistStep(h, e) ==
    IF e.kind = "event" /\ e.name \in {"queue_loaded", "album_loaded"}
    THEN [loaded |-> TRUE, started |-> None]
    ELSE IF e.kind = "event" /\ e.name = "track_started"
    THEN [h EXCEPT !.started = e.data]
    ELSE IF (e.kind = "event" /\ e.name = "track_stopped") \/ (e.kind = "call" /\ e.name = "stop")
    THEN [h EXCEPT !.started = None]
    ELSE h

RECURSIVE HistFold(_, _)
HistFold(h, entries) ==
    IF entries = <<>> THEN h
    ELSE HistFold(HistStep(h, Head(entries)), Tail(entries))

\* ----------------------------------------------------------------- actions
\* errors a backend method raises
BackendErrors == {"OSError"}

\* an operation makes at most two backend calls: the first or the second raises
FaultPositions == {1, 2}

\* which backend call of an operation raises what
Faults ==
    IF faulty
    THEN {NoFault} \cup {[at |-> k, error |-> e] : k \in FaultPositions, e \in BackendErrors}
    ELSE {NoFault}

\* ------------------------------------------------------- file name parsing
\* A string is the sequence of its tokens. A token is a run of letters, a run
\* of digits, one character that is neither, or the separator " - ".
Dash == " - "

Tokens == {"A", "e_nfd", "01", ".", Dash}

DigitTokens == {"01"}

\* the tokens made of characters of the class [\s\.\-_]
SeparatorTokens == {".", Dash}

\* the longest file name stem, in tokens
MaxTokens == 5

RECURSIVE StringsUpTo(_)
StringsUpTo(n) ==
    IF n = 0 THEN {<<>>}
    ELSE LET shorter == StringsUpTo(n - 1)
         IN shorter \cup {Append(s, token) : s \in shorter, token \in Tokens}

\* unicodedata.normalize("NFC", s): the decomposed letter becomes the composed one
NFC(s) == [i \in 1..Len(s) |-> IF s[i] = "e_nfd" THEN "e_nfc" ELSE s[i]]

\* filename.split(" - "): the segments between the separators, empty ones too
RECURSIVE split(_)
split(s) ==
    IF s = <<>> THEN << <<>> >>
    ELSE LET rest == split(Tail(s))
         IN IF Head(s) = Dash
            THEN << <<>> >> \o rest
            ELSE << << Head(s) >> \o rest[1] >> \o Tail(rest)

\* " - ".join(parts)
RECURSIVE join(_)
join(parts) ==
    IF parts = <<>> THEN <<>>
    ELSE IF Len(parts) = 1 THEN parts[1]
    ELSE parts[1] \o << Dash >> \o join(Tail(parts))

\* how many tokens at the front of s are in class
RECURSIVE run(_, _)
run(s, class) ==
    IF s = <<>> \/ Head(s) \notin class THEN 0 ELSE 1 + run(Tail(s), class)

\* _clean_title with the track number left in
clean_title_keeping_number(title) == NFC(title)

\* _clean_title: re.sub(r"^\d+[\s\.\-_]+", "", title), then NFC
clean_title(title) ==
    LET digits == run(title, DigitTokens)
        separators == run(SubSeq(title, digits + 1, Len(title)), SeparatorTokens)
    IN IF digits >= 1 /\ separators >= 1
       THEN NFC(SubSeq(title, digits + separators + 1, Len(title)))
       ELSE NFC(title)

UnknownArtist == << "Unknown Artist" >>

\* _parse_metadata(filename, default_album): (title, artist, album)
parse_metadata(filename, default_album) ==
    LET parts == split(filename)
    IN IF Len(parts) >= 3
       THEN [title |-> clean_title(join(SubSeq(parts, 3, Len(parts)))),
             artist |-> NFC(parts[1]),
             album |-> NFC(parts[2])]
       ELSE IF Len(parts) = 2
       THEN [title |-> clean_title(parts[2]),
             artist |-> NFC(parts[1]),
             album |-> NFC(default_album)]
       ELSE [title |-> clean_title(filename),
             artist |-> UnknownArtist,
             album |-> NFC(default_album)]

\* ------------------------------------------------ PlaytFileCartridgeReader
NoPath == ""
NoCid == ""
NoDir == 0

\* tempfile.mkdtemp is called at most this often
MaxDirs == 3

\* one file of an archive: the directories it lies in, outermost first, the
\* stem and the suffix of its name, and its length in seconds
Entry(dir, stem, suffix, secs) ==
    [dir |-> dir, stem |-> stem, suffix |-> suffix, secs |-> secs]

\* two tracks of one artist and one album
AlbumAtTop ==
    {Entry(<<>>, << "A", Dash, "B", Dash, "01", ".", "A" >>, ".MP3", 100),
     Entry(<<>>, << "A", Dash, "B", Dash, "e_nfd" >>, ".mp3", 200),
     Entry(<<>>, << "notes" >>, ".txt", 0),
     Entry(<< "art" >>, << "cover" >>, ".jpg", 0)}

\* disc: two artists, one album given and one not; extra: a track without an
\* artist and one with
AlbumInSubdir ==
    {Entry(<< "__MACOSX" >>, << "A" >>, ".mp3", 100),
     Entry(<< "disc" >>, << "A", Dash, "B", Dash, "A" >>, ".flac", 100),
     Entry(<< "disc" >>, << "e_nfd", Dash, "A" >>, ".flac", 200),
     Entry(<< "extra" >>, << "01", ".", "A" >>, ".ogg", 100),
     Entry(<< "extra" >>, << "A", Dash, "A" >>, ".ogg", 200),
     Entry(<<>>, << "notes" >>, ".txt", 0)}

NothingToPlay ==
    {Entry(<<>>, << "notes" >>, ".txt", 0),
     Entry(<< "__MACOSX" >>, << "A" >>, ".mp3", 100),
     Entry(<< "art" >>, << "cover" >>, ".jpg", 0),
     Entry(<< "art", "deep" >>, << "A" >>, ".mp3", 100)}

\* a path of the file system: whether it exists, Path.stem, Path.suffix,
\* Path.absolute() with /a as working directory, how zipfile takes the file
\* ("valid", "bad" is no archive, "torn" lists but does not extract,
\* "locked" cannot be opened), and the files in it
PathInfo(exists, stem, suffix, absolute, zip, entries) ==
    [exists |-> exists, stem |-> stem, suffix |-> suffix, absolute |-> absolute,
     zip |-> zip, entries |-> entries]

Paths ==
    {"/a/one.playt", "/b/one.playt", "one.playt", "/a/two.PLAYT", "/a/empty.playt",
     "/a/bad.playt", "/a/torn.playt", "/a/locked.playt", "/a/one.zip", "/a/gone.playt"}

Path(path) ==
    CASE path = "/a/one.playt" ->
             PathInfo(TRUE, "one", ".playt", "/a/one.playt", "valid", AlbumAtTop)
      [] path = "one.playt" ->
             PathInfo(TRUE, "one", ".playt", "/a/one.playt", "valid", AlbumAtTop)
      [] path = "/b/one.playt" ->
             PathInfo(TRUE, "one", ".playt", "/b/one.playt", "valid", AlbumInSubdir)
      [] path = "/a/two.PLAYT" ->
             PathInfo(TRUE, "two", ".PLAYT", "/a/two.PLAYT", "valid", NothingToPlay)
      [] path = "/a/empty.playt" ->
             PathInfo(TRUE, "empty", ".playt", "/a/empty.playt", "valid", {})
      [] path = "/a/bad.playt" ->
             PathInfo(TRUE, "bad", ".playt", "/a/bad.playt", "bad", {})
      [] path = "/a/torn.playt" ->
             PathInfo(TRUE, "torn", ".playt", "/a/torn.playt", "torn", AlbumAtTop)
      [] path = "/a/locked.playt" ->
             PathInfo(TRUE, "locked", ".playt", "/a/locked.playt", "locked", AlbumAtTop)
      [] path = "/a/one.zip" ->
             PathInfo(TRUE, "one", ".zip", "/a/one.zip", "valid", AlbumAtTop)
      [] path = "/a/gone.playt" ->
             PathInfo(FALSE, "gone", ".playt", "/a/gone.playt", "bad", {})
      [] OTHER ->
             PathInfo(FALSE, "", "", path, "bad", {})

\* the ids a Cartridge can carry: the stems, and one that is no file's stem
Cids == {Path(path).stem : path \in Paths} \cup {"ghost"}

\* the ids the callers pass: those of the archives that can be identified, and
\* the one that is no file's stem
PassedCids == {"one", "two", "torn", "ghost"}

\* str.lower() leaving the suffix as it is
lower_asis(suffix) == suffix

\* str.lower() on the suffixes that occur
lower(suffix) ==
    CASE suffix = ".PLAYT" -> ".playt"
      [] suffix = ".MP3" -> ".mp3"
      [] OTHER -> suffix

AUDIO_EXTENSIONS == {".mp3", ".flac", ".wav", ".m4a", ".aac", ".ogg", ".opus"}

\* zipfile.ZipFile(path) and namelist(): what it raises
open_error(info) ==
    CASE info.zip = "bad" -> "BadZipFile"
      [] info.zip = "locked" -> "OSError"
      [] OTHER -> NoError

\* extractall(): what it raises
extract_error(info) ==
    CASE info.zip = "torn" -> "BadZipFile"
      [] OTHER -> open_error(info)

\* except IOError alone
Caught_io_only == {"OSError"}

\* except (zipfile.BadZipFile, IOError, OSError)
Caught == {"BadZipFile", "OSError"}

\* the files directly in directory whose suffix is an audio suffix
find_audio_files(entries, directory) ==
    {e \in entries : e.dir = directory /\ lower(e.suffix) \in AUDIO_EXTENSIONS}

\* subdir.name.startswith("__MACOSX")
startswith_MACOSX(name) == name \in {"__MACOSX"}

\* the directories directly under the top level
subdirs(entries) == {e.dir[1] : e \in {x \in entries : Len(x.dir) >= 1}}

\* the subdirectories the loop can stop at: not skipped, with audio files
candidates(entries) ==
    {d \in subdirs(entries) :
         ~startswith_MACOSX(d) /\ find_audio_files(entries, << d >>) # {}}

ReaderInit ==
    [file_paths |-> [cid \in Cids |-> NoPath], temp_dirs |-> [cid \in Cids |-> NoDir]]

NoScratch == [dirs |-> {}, made |-> 0]

\* what a call on the reader gave: the Cartridge or the Album it returned,
\* the directory mkdtemp made in it, the exception it ended with, and what
\* the duration probes it ran did
Outcome(cartridge, album, created, error, probes) ==
    [cartridge |-> cartridge, album |-> album, created |-> created,
     raised |-> error, probes |-> probes]

Nothing == Outcome(None, None, NoDir, NoError, <<>>)

NoCall ==
    [op |-> "none", arg |-> "", cartridge |-> None, album |-> None,
     created |-> NoDir, raised |-> NoError, probes |-> <<>>, repeated |-> FALSE,
     removed |-> {}]

\* tempfile.mkdtemp(): a directory that did not exist
mkdtemp(fs) == [dirs |-> fs.dirs \cup {fs.made + 1}, made |-> fs.made + 1]

\* shutil.rmtree forgotten
rmtree_forgotten(fs, dir) == fs

\* shutil.rmtree(dir)
rmtree(fs, dir) == [fs EXCEPT !.dirs = @ \ {dir}]

\* shutil.rmtree(dir) raises when dir does not exist
rmtree_error(fs, dir) == IF dir \in fs.dirs THEN NoError ELSE "FileNotFoundError"

\* shutil.rmtree(temp_dir) without asking whether it exists
remove_unchecked(fs, dir) == [fs |-> rmtree(fs, dir), error |-> rmtree_error(fs, dir)]

\* if temp_dir.exists(): shutil.rmtree(temp_dir)
remove_if_exists(fs, dir) ==
    IF dir \in fs.dirs
    THEN [fs |-> rmtree(fs, dir), error |-> rmtree_error(fs, dir)]
    ELSE [fs |-> fs, error |-> NoError]

\* for temp_dir in self._temp_dirs.values(): remove it if it exists; the loop
\* ends at the first rmtree that raises
RECURSIVE remove_all(_, _)
remove_all(fs, dirs) ==
    IF dirs = {} THEN [fs |-> fs, error |-> NoError]
    ELSE LET dir == CHOOSE d \in dirs : TRUE
             removed == remove_if_exists(fs, dir)
         IN IF removed.error # NoError THEN removed
            ELSE remove_all(removed.fs, dirs \ {dir})

\* the place of a token in character order: space, dot, digits, capitals, small
TokenRank(token) ==
    CASE token = Dash -> 1
      [] token = "." -> 2
      [] token = "01" -> 3
      [] token = "A" -> 4
      [] token = "B" -> 5
      [] OTHER -> 6

\* a < b for strings, token by token
RECURSIVE StringLess(_, _)
StringLess(a, b) ==
    IF b = <<>> THEN FALSE
    ELSE IF a = <<>> THEN TRUE
    ELSE IF TokenRank(Head(a)) # TokenRank(Head(b))
    THEN TokenRank(Head(a)) < TokenRank(Head(b))
    ELSE StringLess(Tail(a), Tail(b))

\* sorted(audio_files): by file name, the stem followed by the dot of the suffix
RECURSIVE sorted(_)
sorted(files) ==
    IF files = {} THEN <<>>
    ELSE LET first == CHOOSE f \in files :
                          \A g \in files \ {f} :
                              StringLess(Append(f.stem, "."), Append(g.stem, "."))
         IN << first >> \o sorted(files \ {first})

\* what running ffprobe on one file can do
ProbeOutcomes == {"ok", "exit_error", "not_a_number", "cannot_launch"}

\* the probes of n files, of which at most one fails
ProbeRuns(n) ==
    {probes \in [1..n -> ProbeOutcomes] :
         Cardinality({i \in 1..n : probes[i] # "ok"}) <= 1}

\* subprocess.run(cmd, check=True) and float(): what they raise; a tool that
\* cannot be launched raises FileNotFoundError, which is an OSError
probe_error(outcome) ==
    CASE outcome = "exit_error" -> "SubprocessError"
      [] outcome = "not_a_number" -> "ValueError"
      [] outcome = "cannot_launch" -> "OSError"
      [] OTHER -> NoError

\* except (subprocess.SubprocessError, ValueError) in _get_duration
ProbeCaught == {"SubprocessError", "ValueError"}

\* _get_duration(file): the seconds, None if a caught error, else the error
get_duration(file, outcome) ==
    IF probe_error(outcome) = NoError
    THEN [duration_secs |-> Some(file.secs), error |-> NoError]
    ELSE IF probe_error(outcome) \in ProbeCaught
    THEN [duration_secs |-> None, error |-> NoError]
    ELSE [duration_secs |-> None, error |-> probe_error(outcome)]

\* the Song made of the idx-th audio file
reader_song(file, idx, cid, outcome) ==
    LET meta == parse_metadata(file.stem, << cid >>)
    IN [title |-> meta.title, artist |-> meta.artist, album |-> meta.album,
        duration_secs |-> get_duration(file, outcome).duration_secs,
        file_path |-> file, track_number |-> idx]

\* the album artist taken from the first track
album_artist_of_a_track(songs) == songs[1].artist

\* the album artist: the one named artist, "Various Artists" for several,
\* "Unknown Artist" for none
album_artist(songs) ==
    LET artists == {songs[i].artist : i \in 1..Len(songs)} \ {UnknownArtist}
    IN IF Cardinality(artists) = 1 THEN CHOOSE a \in artists : TRUE
       ELSE IF Cardinality(artists) > 1 THEN << "Various Artists" >>
       ELSE UnknownArtist

\* the album title: the one album name of the tracks, else the cartridge id
album_title(songs, cid) ==
    LET albums == {songs[i].album : i \in 1..Len(songs)}
    IN IF Cardinality(albums) = 1 THEN CHOOSE a \in albums : TRUE ELSE << cid >>

\* cid in self._file_paths, taken to hold always
has_path_always(rd, cid) == TRUE

\* cid in self._file_paths
has_path(rd, cid) == rd.file_paths[cid] # NoPath

\* cleanup(id) leaving the recorded path
forget_scratch_only(rd, cid) == [rd EXCEPT !.temp_dirs[cid] = NoDir]

\* del self._temp_dirs[id] and del self._file_paths[id], for the keys there are
forget(rd, cid) == [rd EXCEPT !.temp_dirs[cid] = NoDir, !.file_paths[cid] = NoPath]

\* the call op(arg) on the reader ended with out
ReaderServed(op, arg, rd, fs, out, gone) ==
    /\ reader' = rd
    /\ scratch' = fs
    /\ ret' = [op |-> op, arg |-> arg, cartridge |-> out.cartridge,
               album |-> out.album, created |-> out.created, raised |-> out.raised,
               probes |-> out.probes, repeated |-> (ret.op = op /\ ret.arg = arg),
               removed |-> scratch.dirs \ fs.dirs]
    /\ released' = gone

ReaderReturn(op, arg, rd, fs, out, gone) ==
    /\ ReaderServed(op, arg, rd, fs, out, gone)
    /\ UNCHANGED <<pure, cli, hostVars>>
    /\ UNCHANGED playerVars

\* how a call on the reader ended: the reader, the scratch space, the outcome
Ended(rd, fs, out) == [reader |-> rd, scratch |-> fs, out |-> out]

\* is_cartridge_available(cartridge_id)
is_cartridge_available(cartridge_id) ==
    LET playt_path == Path(cartridge_id)
    IN IF ~playt_path.exists THEN FALSE
       ELSE IF lower(playt_path.suffix) # ".playt" THEN FALSE
       ELSE open_error(playt_path) = NoError

\* read_cartridge(cartridge_id) on the reader rd
reader_read_cartridge(rd, fs, cartridge_id) ==
    LET playt_path == Path(cartridge_id)
        cid == playt_path.stem
        failed == open_error(playt_path)
    IN IF ~playt_path.exists \/ ~(lower(playt_path.suffix) = ".playt")
       THEN Ended(rd, fs, Nothing)
       ELSE IF failed # NoError
       THEN IF failed \in Caught
            THEN Ended(rd, fs, Nothing)
            ELSE Ended(rd, fs, Outcome(None, None, NoDir, failed, <<>>))
       ELSE IF playt_path.entries = {}
       THEN Ended(rd, fs, Nothing)
       ELSE Ended([rd EXCEPT !.file_paths[cid] = playt_path.absolute], fs,
                  Outcome(Some(cid), None, NoDir, NoError, <<>>))

\* load_album_from_cartridge(Cartridge(cid)) on the reader rd: every way it can
\* end, one for each course of the duration probes and each subdirectory
\* that iterdir() can give first
reader_load_album(rd, fs, cid) ==
    IF ~has_path(rd, cid)
    THEN {Ended(rd, fs, Nothing)}
    ELSE IF rd.file_paths[cid] = NoPath
    THEN {Ended(rd, fs, Outcome(None, None, NoDir, "KeyError", <<>>))}
    ELSE
    LET playt_path == Path(rd.file_paths[cid])
    IN IF ~playt_path.exists \/ lower(playt_path.suffix) # ".playt"
       THEN {Ended(rd, fs, Nothing)}
       ELSE IF fs.made >= MaxDirs
       THEN {}
       ELSE
       LET made == mkdtemp(fs)
           temp_dir == made.made
           tracked == [rd EXCEPT !.temp_dirs[cid] = temp_dir]
           \* the except branch: the error is caught, or leaves the call
           except(error, probes) ==
               IF error \in Caught
               THEN LET removed == remove_if_exists(made, temp_dir)
                    IN IF removed.error # NoError
                       THEN Ended(tracked, removed.fs,
                                  Outcome(None, None, temp_dir, removed.error, probes))
                       ELSE Ended([tracked EXCEPT !.temp_dirs[cid] = NoDir],
                                  removed.fs,
                                  Outcome(None, None, temp_dir, NoError, probes))
               ELSE Ended(tracked, made, Outcome(None, None, temp_dir, error, probes))
           \* the songs and the album of the audio files of content_dir
           found(content_dir) ==
               LET audio_files ==
                       sorted(find_audio_files(playt_path.entries, content_dir))
                   run_with(probes) ==
                       LET songs ==
                               [idx \in 1..Len(audio_files) |->
                                    reader_song(audio_files[idx], idx, cid, probes[idx])]
                           failing ==
                               {idx \in 1..Len(audio_files) :
                                    get_duration(audio_files[idx],
                                                 probes[idx]).error # NoError}
                           first == CHOOSE idx \in failing :
                                        \A other \in failing : idx <= other
                       IN IF failing # {}
                          THEN except(get_duration(audio_files[first],
                                                   probes[first]).error,
                                      probes)
                          ELSE Ended(tracked, made,
                                     Outcome(None,
                                             Some([title |-> album_title(songs, cid),
                                                   artist |-> album_artist(songs),
                                                   content_dir |-> content_dir,
                                                   songs |-> songs]),
                                             temp_dir, NoError, probes))
               IN {run_with(probes) : probes \in ProbeRuns(Len(audio_files))}
       IN IF extract_error(playt_path) # NoError
          THEN {except(extract_error(playt_path), <<>>)}
          ELSE IF find_audio_files(playt_path.entries, <<>>) # {}
          THEN found(<<>>)
          ELSE IF candidates(playt_path.entries) # {}
          THEN UNION {found(<< subdir >>) : subdir \in candidates(playt_path.entries)}
          ELSE {Ended(tracked, rmtree(made, temp_dir),
                      Outcome(None, None, temp_dir, NoError, <<>>))}

read_cartridge ==
    \E cartridge_id \in Paths :
        LET end == reader_read_cartridge(reader, scratch, cartridge_id)
        IN ReaderReturn("read_cartridge", cartridge_id, end.reader, end.scratch, end.out,
                        IF end.out.cartridge # None
                        THEN released \ {end.out.cartridge[1]}
                        ELSE released)

load_album_from_cartridge ==
    \E cid \in PassedCids :
        \E end \in reader_load_album(reader, scratch, cid) :
            ReaderReturn("load_album_from_cartridge", cid, end.reader, end.scratch,
                         end.out, released)

cleanup ==
    \E cartridge_id \in PassedCids \cup {NoCid} :
        IF cartridge_id # NoCid
        THEN LET removed ==
                     IF reader.temp_dirs[cartridge_id] # NoDir
                     THEN remove_if_exists(scratch, reader.temp_dirs[cartridge_id])
                     ELSE [fs |-> scratch, error |-> NoError]
             IN IF removed.error # NoError
                THEN ReaderReturn("cleanup", cartridge_id, reader, removed.fs,
                                  Outcome(None, None, NoDir, removed.error, <<>>),
                                  released)
                ELSE ReaderReturn("cleanup", cartridge_id,
                                  forget(reader, cartridge_id), removed.fs, Nothing,
                                  IF has_path(reader, cartridge_id)
                                  THEN released \cup {cartridge_id}
                                  ELSE released)
        ELSE LET removed ==
                     remove_all(scratch,
                                {reader.temp_dirs[cid] : cid \in Cids} \ {NoDir})
             IN IF removed.error # NoError
                THEN ReaderReturn("cleanup", cartridge_id, reader, removed.fs,
                                  Outcome(None, None, NoDir, removed.error, <<>>),
                                  released)
                ELSE ReaderReturn("cleanup", cartridge_id, ReaderInit, removed.fs,
                                  Nothing,
                                  released \cup {cid \in Cids : has_path(reader, cid)})

\* the operation op returned, leaving the service as r
Served(r, op) ==
    /\ queue' = r.queue
    /\ current_index' = r.current_index
    /\ current_song' = r.current_song
    /\ audio_player' = r.audio_player
    /\ log' = r.log
    /\ pre_index' = current_index
    /\ raised' = r.raised
    /\ history' = HistFold(history, r.log)
    /\ lastOp' = op
    /\ got' = IF op \in {"load_album", "load_queue"}
              THEN [got EXCEPT !.live = FALSE, !.returned = None, !.earlier = None]
              ELSE got
    /\ UNCHANGED <<posix, faulty>>

\* the operation op of the service returned; the reader and the CLI took no part
Return(r, op) == Served(r, op) /\ UNCHANGED loaderVars

\* the observers there are: the WebViewUI, a LoggingObserver, a LEDObserver
Observers == {"ui", "log", "led"}

\* a Subject without observers that has notified nobody: observers is
\* _observers, attached the observers attached since their last detach, op
\* the last call and its argument, received the update calls that the last
\* notify made on each observer
NoSubject ==
    [observers |-> <<>>, attached |-> {}, op |-> << "init", "" >>,
     received |-> [o \in Observers |-> <<>>]]

\* a thread that is in no method of the service: op is the method it was
\* called with and arg its argument, pc the statement it is to run next,
\* state what get_state() returned to it, then where it goes on after stop()
Idle == [op |-> "idle", arg |-> <<>>, pc |-> "idle", state |-> "", then |-> ""]

\* no thread of a WebView host runs
NoThreads == [api |-> Idle, poll |-> Idle]

\* a PlaytJSApi that has loaded no file
NoApi == [current_reader |-> FALSE, backing |-> 0]

\* no Subject on its own, no WebView host, no trace kept
NoHost ==
    /\ subject = NoSubject
    /\ threads = NoThreads
    /\ host = NoApi
    /\ trace = <<>>

\* nothing was printed
NoText == ""

\* a PlayerCLI that loaded nothing yet: reader tells whether _cartridge_reader
\* is set; of the last _load_cartridge, arg is its argument, calls the reader
\* methods it called with what each returned, loaded whether it called
\* PlayerService.load_album, text what it printed first; before holds arg and
\* text of the load before it
NoCli ==
    [reader |-> TRUE, arg |-> "", calls |-> <<>>, loaded |-> FALSE, text |-> NoText,
     before |-> << "", NoText >>]

\* no function has been called
NoPure == [fn |-> "none", args |-> <<>>, done |-> FALSE, result |-> <<>>]

\* a PlayerService on a new FFmpegAudioPlayer, and a new PlaytFileCartridgeReader
Constructed ==
    /\ queue = <<>>
    /\ current_index = -1
    /\ current_song = None
    /\ aliased = FALSE
    /\ audio_player = FFInit
    /\ posix \in BOOLEAN
    /\ lastOp = "init"
    /\ pre_index = -1
    /\ log = <<>>
    /\ raised = NoError
    /\ history = NoHistory
    /\ faulty = FALSE
    /\ got = NoGot
    /\ reader = ReaderInit
    /\ scratch = NoScratch
    /\ ret = NoCall
    /\ released = {}

Init == Constructed /\ pure = NoPure /\ cli = NoCli /\ NoHost

\* sorted() builds a list of its own
load_album ==
    \E album_songs \in SongLists :
        /\ Return(svc_load_album(Self, album_songs), "load_album")
        /\ aliased' = FALSE

\* self._queue = songs: the service keeps the caller's list object
load_queue ==
    \E songs \in SongLists :
        /\ Return(svc_load_queue(Self, songs), "load_queue")
        /\ aliased' = TRUE

play ==
    \E fault \in Faults :
        Return(svc_play(SelfWith(fault)), "play") /\ UNCHANGED aliased

pause ==
    \E fault \in Faults :
        Return(svc_pause(SelfWith(fault)), "pause") /\ UNCHANGED aliased

stop ==
    \E fault \in Faults :
        Return(svc_stop(SelfWith(fault)), "stop") /\ UNCHANGED aliased

next ==
    \E fault \in Faults :
        Return(svc_next(SelfWith(fault)), "next") /\ UNCHANGED aliased

previous ==
    \E fault \in Faults :
        Return(svc_previous(SelfWith(fault)), "previous") /\ UNCHANGED aliased

seek ==
    \E position_secs \in Positions, fault \in Faults :
        Return(svc_seek(SelfWith(fault), position_secs), "seek") /\ UNCHANGED aliased

set_volume ==
    \E volume \in Volumes, fault \in Faults :
        Return(svc_set_volume(SelfWith(fault), volume), "set_volume") /\ UNCHANGED aliased

check_playback_status ==
    \E fault \in Faults :
        Return(svc_check_playback_status(SelfWith(fault)), "check_playback_status") /\ UNCHANGED aliased

\* ffplay -autoexit: the running process reaches the end of the file
process_exits ==
    /\ audio_player.process = "running"
    /\ audio_player' = [audio_player EXCEPT !.process = "exited", !.alive = @ - 1]
    /\ lastOp' = "process_exits"
    /\ pre_index' = current_index
    /\ log' = <<>>
    /\ raised' = NoError
    /\ UNCHANGED <<queue, current_index, current_song, aliased, posix, history, faulty, got>>
    /\ UNCHANGED loaderVars

\* libvlc reports that playback of the opened media has begun
vlc_starts ==
    /\ audio_player.player = "Opening"
    /\ audio_player' = [audio_player EXCEPT !.player = "Playing"]
    /\ lastOp' = "vlc_starts"
    /\ pre_index' = current_index
    /\ log' = <<>>
    /\ raised' = NoError
    /\ UNCHANGED <<queue, current_index, current_song, aliased, posix, history, faulty, got>>
    /\ UNCHANGED loaderVars

\* libvlc reports the end of the media
vlc_ends ==
    /\ audio_player.player = "Playing"
    /\ audio_player' = [audio_player EXCEPT !.player = "Ended"]
    /\ lastOp' = "vlc_ends"
    /\ pre_index' = current_index
    /\ log' = <<>>
    /\ raised' = NoError
    /\ UNCHANGED <<queue, current_index, current_song, aliased, posix, history, faulty, got>>
    /\ UNCHANGED loaderVars

\* the caller of load_queue changes the list it passed
caller_append ==
    /\ aliased
    /\ Len(queue) < MaxLen
    /\ \E song \in Songs : queue' = Append(queue, song)
    /\ lastOp' = "caller_append"
    /\ pre_index' = current_index
    /\ log' = <<>>
    /\ raised' = NoError
    /\ UNCHANGED <<current_index, current_song, aliased, audio_player, posix, history, faulty, got>>
    /\ UNCHANGED loaderVars

caller_remove ==
    /\ aliased
    /\ \E i \in 1..Len(queue) :
           queue' = SubSeq(queue, 1, i - 1) \o SubSeq(queue, i + 1, Len(queue))
    /\ lastOp' = "caller_remove"
    /\ pre_index' = current_index
    /\ log' = <<>>
    /\ raised' = NoError
    /\ UNCHANGED <<current_index, current_song, aliased, audio_player, posix, history, faulty, got>>
    /\ UNCHANGED loaderVars

caller_clear ==
    /\ aliased
    /\ queue # <<>>
    /\ queue' = <<>>
    /\ lastOp' = "caller_clear"
    /\ pre_index' = current_index
    /\ log' = <<>>
    /\ raised' = NoError
    /\ UNCHANGED <<current_index, current_song, aliased, audio_player, posix, history, faulty, got>>
    /\ UNCHANGED loaderVars

\* get_queue() returns a list to the caller
get_queue_call ==
    LET result == svc_get_queue(Self)
    IN /\ got' = [held |-> TRUE, list |-> result.list, live |-> result.live,
                  returned |-> Some(result.list), earlier |-> got.returned]
       /\ lastOp' = "get_queue"
       /\ pre_index' = current_index
       /\ log' = <<>>
       /\ raised' = NoError
       /\ UNCHANGED <<queue, current_index, current_song, aliased, audio_player,
                      posix, history, faulty>>
       /\ UNCHANGED loaderVars

\* the caller changed the list it got to edited; a list that is self._queue
\* itself changes the queue with it
Edit(op, edited) ==
    /\ got' = [got EXCEPT !.list = edited]
    /\ queue' = IF got.live THEN edited ELSE queue
    /\ lastOp' = op
    /\ pre_index' = current_index
    /\ log' = <<>>
    /\ raised' = NoError
    /\ UNCHANGED <<current_index, current_song, aliased, audio_player, posix,
                   history, faulty>>
    /\ UNCHANGED loaderVars

holder_append ==
    /\ got.held
    /\ Len(got.list) < MaxLen
    /\ \E song \in Songs : Edit("holder_append", Append(got.list, song))

holder_remove ==
    /\ got.held
    /\ \E i \in 1..Len(got.list) :
           Edit("holder_remove",
                SubSeq(got.list, 1, i - 1) \o SubSeq(got.list, i + 1, Len(got.list)))

holder_clear ==
    /\ got.held
    /\ got.list # <<>>
    /\ Edit("holder_clear", <<>>)

\* the calls on one PlayerService, made one at a time, and the backend's process
Next ==
    \/ load_album
    \/ load_queue
    \/ play
    \/ pause
    \/ stop
    \/ next
    \/ previous
    \/ seek
    \/ set_volume
    \/ check_playback_status
    \/ process_exits

Spec == Init /\ [][Next]_vars

\* the same, with a caller that keeps using the list it gave to load_queue
NextCaller ==
    \/ Next
    \/ caller_append
    \/ caller_remove
    \/ caller_clear

SpecCaller == Init /\ [][NextCaller]_vars

\* the service constructed over a LocalFileAudioPlayer
InitVlc ==
    /\ queue = <<>>
    /\ current_index = -1
    /\ current_song = None
    /\ aliased = FALSE
    /\ audio_player = LFInit
    /\ posix = TRUE
    /\ lastOp = "init"
    /\ pre_index = -1
    /\ log = <<>>
    /\ raised = NoError
    /\ history = NoHistory
    /\ faulty = FALSE
    /\ got = NoGot
    /\ reader = ReaderInit
    /\ scratch = NoScratch
    /\ ret = NoCall
    /\ released = {}
    /\ pure = NoPure
    /\ cli = NoCli
    /\ NoHost

NextVlc ==
    \/ load_album
    \/ load_queue
    \/ play
    \/ pause
    \/ stop
    \/ next
    \/ previous
    \/ seek
    \/ set_volume
    \/ check_playback_status
    \/ vlc_starts
    \/ vlc_ends

SpecVlc == InitVlc /\ [][NextVlc]_vars

\* the service over an FFmpegAudioPlayer whose methods may raise
InitFail ==
    /\ queue = <<>>
    /\ current_index = -1
    /\ current_song = None
    /\ aliased = FALSE
    /\ audio_player = FFInit
    /\ posix = TRUE
    /\ lastOp = "init"
    /\ pre_index = -1
    /\ log = <<>>
    /\ raised = NoError
    /\ history = NoHistory
    /\ faulty = TRUE
    /\ got = NoGot
    /\ reader = ReaderInit
    /\ scratch = NoScratch
    /\ ret = NoCall
    /\ released = {}
    /\ pure = NoPure
    /\ cli = NoCli
    /\ NoHost

\* load_album makes no backend call and leaves the same states as load_queue
NextFail ==
    \/ load_queue
    \/ play
    \/ pause
    \/ stop
    \/ next
    \/ previous
    \/ seek
    \/ set_volume
    \/ check_playback_status
    \/ process_exits

SpecFail == InitFail /\ [][NextFail]_vars

\* an FFmpegAudioPlayer whose methods are called directly, in any order
FilePaths == {s.file_path : s \in Songs}

\* the method op, called on a backend in state audio_player, left it as b
Direct(op, file, value, b) ==
    /\ audio_player' = b
    /\ lastOp' = op
    /\ log' = << [Call(op, file, value) EXCEPT !.data = << audio_player.state >>] >>
    /\ pre_index' = current_index
    /\ raised' = NoError
    /\ UNCHANGED <<queue, current_index, current_song, aliased, posix, history, faulty, got>>
    /\ UNCHANGED loaderVars

ffmpeg_play ==
    \E file_path \in FilePaths :
        Direct("ff_play", file_path, 0, ff_play(audio_player, file_path, posix))

ffmpeg_pause == Direct("ff_pause", NoFile, 0, ff_pause(audio_player, posix))

ffmpeg_stop == Direct("ff_stop", NoFile, 0, ff_stop(audio_player))

ffmpeg_seek ==
    \E position_secs \in Positions :
        Direct("ff_seek", NoFile, position_secs, ff_seek(audio_player, position_secs))

ffmpeg_set_volume ==
    \E volume \in Volumes :
        Direct("ff_set_volume", NoFile, volume, ff_set_volume(audio_player, volume))

ffmpeg_get_state == Direct("ff_get_state", NoFile, 0, ff_refresh_state(audio_player))

NextBackend ==
    \/ ffmpeg_play
    \/ ffmpeg_pause
    \/ ffmpeg_stop
    \/ ffmpeg_seek
    \/ ffmpeg_set_volume
    \/ ffmpeg_get_state
    \/ process_exits

SpecBackend == Init /\ [][NextBackend]_vars

\* a caller that asks for the queue and edits the list it got
NextGet ==
    \/ load_queue
    \/ play
    \/ next
    \/ get_queue_call
    \/ holder_append
    \/ holder_remove
    \/ holder_clear

InitGet == Init /\ posix

SpecGet == InitGet /\ [][NextGet]_vars

\* the function fn was called with args and returned result
Applied(fn, result) ==
    /\ pure.fn = fn
    /\ ~pure.done
    /\ pure' = [pure EXCEPT !.done = TRUE, !.result = result]
    /\ UNCHANGED playerVars
    /\ UNCHANGED <<reader, scratch, ret, released, cli, hostVars>>

\* the cartridge ids passed as default album
DefaultAlbums == {<< "one" >>, << "e_nfd" >>}

\* _parse_metadata on every stem of up to MaxTokens tokens
InitParse ==
    /\ Constructed
    /\ posix
    /\ cli = NoCli
    /\ NoHost
    /\ \E filename \in StringsUpTo(MaxTokens), default_album \in DefaultAlbums :
           pure = [fn |-> "_parse_metadata", args |-> << filename, default_album >>,
                   done |-> FALSE, result |-> <<>>]

call_parse_metadata ==
    LET meta == parse_metadata(pure.args[1], pure.args[2])
    IN Applied("_parse_metadata", << meta.title, meta.artist, meta.album >>)

NextParse == call_parse_metadata

SpecParse == InitParse /\ [][NextParse]_vars

\* track numbers of the songs of an album: two small ones and one above the
\* key ordered_songs gives to a song without a number
TrackNumbers == {1, 2, 1000}

\* the songs an Album is built from
AlbumSongs ==
    [file_path : {"a.mp3", "b.mp3"}, title : {1, 2},
     track_number : TrackNumbers \cup {NoNumber}]

\* Album.ordered_songs on every Album.songs of at most MaxLen songs
InitOrder ==
    /\ Constructed
    /\ posix
    /\ cli = NoCli
    /\ NoHost
    /\ \E songs \in UNION {[1..n -> AlbumSongs] : n \in 0..MaxLen} :
           pure = [fn |-> "ordered_songs", args |-> << songs >>,
                   done |-> FALSE, result |-> <<>>]

\* sorted() builds a new list: self.songs, the argument, stays as it is
call_ordered_songs == Applied("ordered_songs", ordered_songs(pure.args[1]))

NextOrder == call_ordered_songs

SpecOrder == InitOrder /\ [][NextOrder]_vars

\* what is typed after "load": a relative path of an album, an archive
\* without audio files, an empty one, a file that is no archive, an archive
\* that does not extract, a path of no file, and a name that is no path
CliIds ==
    {"one.playt", "/a/two.PLAYT", "/a/empty.playt", "/a/bad.playt", "/a/torn.playt",
     "/a/gone.playt", "ghost"}

\* Path.is_absolute()
is_absolute(path) == path \notin {"one.playt", "ghost"}

\* not value, for an Optional[Cartridge] or Optional[Album], taken to be false
\* always
falsy_never(value) == FALSE

\* not value, for an Optional[Cartridge] or Optional[Album]
falsy(value) == value = None

\* the reader method name was called; ok: it returned True, a Cartridge or
\* an Album
ReaderCall(name, ok) == [name |-> name, ok |-> ok]

\* _load_cartridge(typed) returns or raises: r is the service, rd and fs the
\* reader and its scratch space
CliReturn(typed, r, rd, fs, has_reader, called, loaded, text) ==
    /\ Served(r, "_load_cartridge")
    /\ aliased' = IF loaded /\ r.raised = NoError THEN FALSE ELSE aliased
    /\ reader' = rd
    /\ scratch' = fs
    /\ cli' = [reader |-> has_reader, arg |-> typed, calls |-> called,
               loaded |-> loaded, text |-> text, before |-> << cli.arg, cli.text >>]
    /\ UNCHANGED <<ret, released, pure, hostVars>>

\* PlayerCLI._load_cartridge
load_cartridge ==
    \E typed \in CliIds :
        LET cartridge_path == Path(typed)
            is_playt_file_by_extension == lower(cartridge_path.suffix) = ".playt"
            creates == is_playt_file_by_extension /\ ~cli.reader
            cartridge_id ==
                IF creates /\ ~is_absolute(typed) /\ cartridge_path.exists
                THEN cartridge_path.absolute
                ELSE typed
            has_reader == cli.reader \/ creates
            available == ReaderCall("is_cartridge_available",
                                    is_cartridge_available(cartridge_id))
            read == reader_read_cartridge(reader, scratch, cartridge_id)
            cartridge == read.out.cartridge
            reading == ReaderCall("read_cartridge", cartridge # None)
            loading(album) == ReaderCall("load_album_from_cartridge", album # None)
        IN IF ~has_reader
           THEN CliReturn(typed, Self, reader, scratch, has_reader, <<>>, FALSE,
                          "Cartridge reader not available")
           ELSE IF ~available.ok
           THEN CliReturn(typed, Self, reader, scratch, has_reader, << available >>,
                          FALSE, "Cartridge not found")
           ELSE IF read.out.raised # NoError
           THEN CliReturn(typed, raise(Self, read.out.raised), read.reader,
                          read.scratch, has_reader, << available, reading >>, FALSE,
                          NoText)
           ELSE IF falsy(cartridge)
           THEN CliReturn(typed, Self, read.reader, read.scratch, has_reader,
                          << available, reading >>, FALSE, "Failed to read cartridge")
           ELSE IF cartridge = None
           THEN CliReturn(typed, raise(Self, "AttributeError"), read.reader,
                          read.scratch, has_reader,
                          << available, reading, loading(None) >>, FALSE, NoText)
           ELSE \E load \in reader_load_album(read.reader, read.scratch, cartridge[1]) :
                    LET album == load.out.album
                        called == << available, reading, loading(album) >>
                    IN IF load.out.raised # NoError
                       THEN CliReturn(typed, raise(Self, load.out.raised), load.reader,
                                      load.scratch, has_reader, called, FALSE, NoText)
                       ELSE IF falsy(album)
                       THEN CliReturn(typed, Self, load.reader, load.scratch,
                                      has_reader, called, FALSE,
                                      "Failed to load album from cartridge")
                       ELSE IF album = None
                       THEN CliReturn(typed, raise(Self, "AttributeError"),
                                      load.reader, load.scratch, has_reader, called,
                                      TRUE, NoText)
                       ELSE CliReturn(typed, svc_load_album(Self, album[1].songs),
                                      load.reader, load.scratch, has_reader, called,
                                      TRUE, "Loaded album")

\* a PlayerCLI made with a reader or without one
InitCli ==
    /\ Constructed
    /\ posix
    /\ pure = NoPure
    /\ cli \in {[NoCli EXCEPT !.reader = has_reader] : has_reader \in BOOLEAN}
    /\ NoHost

\* the commands load, play and next of the interactive loop
NextCli ==
    \/ load_cartridge
    \/ play
    \/ next

SpecCli == InitCli /\ [][NextCli]_vars

\* a caller calls next() and then previous(); an exception of next() leaves
\* the caller before previous() is called
next_previous ==
    \E fault \in Faults :
        LET after_next == svc_next(SelfWith(fault))
        IN /\ Return(IF after_next.raised # NoError
                     THEN after_next
                     ELSE svc_previous(after_next),
                     "next_previous")
           /\ UNCHANGED aliased

\* the operations of the service, and next() and previous() called in a row
NextRound ==
    \/ Next
    \/ next_previous

SpecRound == Init /\ [][NextRound]_vars

\* observer in self._observers
observing(observers, observer) == \E i \in DOMAIN observers : observers[i] = observer

\* attach appending without looking
subject_attach_again(observers, observer) == Append(observers, observer)

\* Subject.attach
subject_attach(observers, observer) ==
    IF ~observing(observers, observer) THEN Append(observers, observer) ELSE observers

\* list.remove: the first occurrence goes
list_remove(list, x) ==
    LET first == CHOOSE i \in DOMAIN list : list[i] = x /\ \A j \in 1..(i - 1) : list[j] # x
    IN SubSeq(list, 1, first - 1) \o SubSeq(list, first + 1, Len(list))

\* Subject.detach
subject_detach(observers, observer) ==
    IF observing(observers, observer) THEN list_remove(observers, observer) ELSE observers

\* Subject.notify: the update calls made on observer
subject_notify(observers, observer, event_type) ==
    LET mine == SelectSeq(observers, LAMBDA o : o = observer)
    IN [i \in DOMAIN mine |-> event_type]

\* a call on the Subject returned
SubjectReturn(s) ==
    /\ subject' = s
    /\ UNCHANGED playerVars
    /\ UNCHANGED <<reader, scratch, ret, released, pure, cli, threads, host, trace>>

attach ==
    \E observer \in Observers :
        SubjectReturn([subject EXCEPT !.observers = subject_attach(@, observer),
                                      !.attached = @ \cup {observer},
                                      !.op = << "attach", observer >>])

detach ==
    \E observer \in Observers :
        SubjectReturn([subject EXCEPT !.observers = subject_detach(@, observer),
                                      !.attached = @ \ {observer},
                                      !.op = << "detach", observer >>])

subject_notifies ==
    \E event_type \in {"track_started", "queue_ended"} :
        SubjectReturn([subject EXCEPT
                           !.op = << "notify", event_type >>,
                           !.received = [o \in Observers |->
                                             subject_notify(subject.observers, o,
                                                            event_type)]])

\* attach, detach and notify on one Subject, in any order
NextSubject ==
    \/ attach
    \/ detach
    \/ subject_notifies

SpecSubject == Init /\ [][NextSubject]_vars

\* ------------------------------------------------- the threads of WebViewUI
\* The progress thread runs _poll_progress, the calls of PlaytJSApi arrive on
\* another thread; no lock is taken by either. A step is one statement of
\* PlayerService.

\* list[i] as Python reads it: from the end for a negative i, IndexError
\* outside -len .. len - 1
in_range(list, i) == -Len(list) <= i /\ i < Len(list)

getitem(list, i) == IF i >= 0 THEN list[i + 1] ELSE list[Len(list) + i + 1]

\* the thread t goes on at pc
goto(t, pc) == [t EXCEPT !.pc = pc]

\* the thread t returns from its method
return(t) == Idle

\* the albums loaded through PlaytJSApi
HostAlbums == {<< Song1, Song2 >>, << Song1 >>}

\* one statement of the thread t on the service s: the thread and the service
\* after it
Step(t, s) ==
    LET to(pc, s1) == [t |-> goto(t, pc), s |-> s1]
        done(s1) == [t |-> return(t), s |-> s1]
        selected == s.current_song # None
    IN CASE t.pc = "c_state" ->
                [t |-> [t EXCEPT !.pc = "c_test",
                                 !.state = backend_get_state(s.audio_player)],
                 s |-> player_get_state(s)]
         [] t.pc = "c_test" ->
                IF selected /\ t.state = "idle" THEN to("n_empty", s) ELSE done(s)
         [] t.pc = "n_empty" ->
                IF s.queue = <<>> THEN done(s) ELSE to("n_last", s)
         [] t.pc = "n_last" ->
                IF s.current_index < Len(s.queue) - 1
                THEN to("n_index", s)
                ELSE [t |-> [t EXCEPT !.pc = "s_stop", !.then = "n_ended"], s |-> s]
         [] t.pc = "n_index" ->
                to("n_song", [s EXCEPT !.current_index = @ + 1])
         [] t.pc \in {"n_song", "p_song"} ->
                IF in_range(s.queue, s.current_index)
                THEN to("n_play", [s EXCEPT !.current_song =
                                                Some(getitem(s.queue, s.current_index))])
                ELSE done(raise(s, "IndexError"))
         [] t.pc = "n_play" ->
                IF selected
                THEN to("n_notify", player_play(s, s.current_song[1].file_path))
                ELSE done(raise(s, "AttributeError"))
         [] t.pc = "n_notify" ->
                done(notify(s, "track_started", s.current_song, 0))
         [] t.pc = "n_ended" ->
                done(notify(s, "queue_ended", None, 0))
         [] t.pc = "s_stop" ->
                to("s_notify", player_stop(s))
         [] t.pc = "s_notify" ->
                to("s_song", IF selected
                             THEN notify(s, "track_stopped", s.current_song, 0)
                             ELSE s)
         [] t.pc = "s_song" ->
                to("s_index", [s EXCEPT !.current_song = None])
         [] t.pc = "s_index" ->
                IF t.then = "n_ended"
                THEN to("n_ended", [s EXCEPT !.current_index = -1])
                ELSE done([s EXCEPT !.current_index = -1])
         [] t.pc = "p_empty" ->
                IF s.queue = <<>> THEN done(s) ELSE to("p_first", s)
         [] t.pc = "p_first" ->
                IF s.current_index > 0 THEN to("p_index", s) ELSE to("p_restart", s)
         [] t.pc = "p_index" ->
                to("p_song", [s EXCEPT !.current_index = @ - 1])
         [] t.pc = "p_restart" ->
                IF selected THEN to("n_play", s) ELSE done(s)
         [] t.pc = "l_queue" ->
                [t |-> [t EXCEPT !.pc = "l_index", !.arg = <<>>],
                 s |-> [s EXCEPT !.queue = ordered_songs(t.arg)]]
         [] t.pc = "l_index" ->
                to("l_song", [s EXCEPT !.current_index = -1])
         [] t.pc = "l_song" ->
                to("l_notify", [s EXCEPT !.current_song = None])
         [] t.pc = "l_notify" ->
                done(notify(s, "album_loaded", s.queue, 0))
         [] t.pc = "y_test" ->
                IF ~selected /\ s.queue # <<>> THEN to("y_index", s) ELSE to("y_play", s)
         [] t.pc = "y_index" ->
                to("y_song", [s EXCEPT !.current_index = 0])
         [] t.pc = "y_song" ->
                IF s.queue # <<>>
                THEN to("y_play", [s EXCEPT !.current_song = Some(s.queue[1])])
                ELSE done(raise(s, "IndexError"))
         [] t.pc = "y_play" ->
                IF selected THEN to("n_play", s) ELSE done(s)

\* the first statement of each method
FirstStatement(op) ==
    CASE op = "check_playback_status" -> "c_state"
      [] op = "next" -> "n_empty"
      [] op = "previous" -> "p_empty"
      [] op = "stop" -> "s_stop"
      [] op = "load_album" -> "l_queue"
      [] op = "play" -> "y_test"

\* the thread tid is called with op(arg), or runs a statement: the service is
\* left as s and the threads as ts
Scheduled(s, ts) ==
    /\ Served(s, "thread")
    /\ threads' = ts
    /\ UNCHANGED aliased
    /\ UNCHANGED <<reader, scratch, ret, released, pure, cli, subject, host, trace>>

\* PlaytJSApi gets a command while no other command of it is running
api_calls ==
    /\ threads.api.op = "idle"
    /\ \E op \in {"play", "next", "previous", "stop", "load_album"} :
           \E arg \in IF op = "load_album" THEN HostAlbums ELSE {<<>>} :
               Scheduled(Self, [threads EXCEPT
                                    !.api = [Idle EXCEPT !.op = op, !.arg = arg,
                                                         !.pc = FirstStatement(op)]])

\* the command runs one statement; an exception ends it
api_steps ==
    /\ threads.api.op # "idle"
    /\ LET after == Step(threads.api, Self)
       IN Scheduled(after.s, [threads EXCEPT !.api = after.t])

\* _poll_progress calls check_playback_status
poll_calls ==
    /\ threads.poll.op = "idle"
    /\ Scheduled(Self, [threads EXCEPT
                            !.poll = [Idle EXCEPT !.op = "check_playback_status",
                                                  !.pc = FirstStatement("check_playback_status")]])

\* check_playback_status runs one statement; an exception ends the thread
poll_steps ==
    /\ threads.poll.op \notin {"idle", "dead"}
    /\ LET after == Step(threads.poll, Self)
       IN Scheduled(after.s,
                    [threads EXCEPT !.poll = IF after.s.raised # NoError
                                             THEN [Idle EXCEPT !.op = "dead"]
                                             ELSE after.t])

NextThreads ==
    \/ api_calls
    \/ api_steps
    \/ poll_calls
    \/ poll_steps
    \/ process_exits

SpecThreads == InitGet /\ [][NextThreads]_vars

\* ------------------------------------------------ playing a queue to its end
\* the events of an operation's log, as name and payload
events(entries) ==
    LET emitted_here == SelectSeq(entries, IsEvent)
    IN [i \in DOMAIN emitted_here |-> << emitted_here[i].name, emitted_here[i].data >>]

\* an operation of the service returned; trace takes the events it emitted,
\* beginning anew with play()
Traced(r, op) ==
    /\ Served(r, op)
    /\ trace' = (IF op = "play" THEN <<>> ELSE trace) \o events(r.log)
    /\ UNCHANGED aliased
    /\ UNCHANGED <<reader, scratch, ret, released, pure, cli, subject, threads, host>>

\* a queue of at least one track is loaded
starts_loaded ==
    /\ lastOp = "init"
    /\ \E album_songs \in SongLists \ {<<>>} :
           Traced(svc_load_album(Self, album_songs), "load_album")

\* a queue of at least one track is loaded as a list of songs
starts_queued ==
    /\ lastOp = "init"
    /\ \E songs \in SongLists \ {<<>>} :
           Traced(svc_load_queue(Self, songs), "load_queue")

\* the commands that load a queue
Loading == {"init", "load_album", "load_queue"}

\* play() on the loaded queue
starts_playing ==
    /\ lastOp \in Loading \ {"init"}
    /\ Traced(svc_play(Self), "play")

\* the main loop polls once more
polls ==
    /\ lastOp \notin Loading
    /\ Traced(svc_check_playback_status(Self), "check_playback_status")

\* the track that plays comes to its end
track_ends ==
    /\ lastOp \notin Loading
    /\ process_exits

NextAuto ==
    \/ starts_loaded
    \/ starts_queued
    \/ starts_playing
    \/ polls
    \/ track_ends

SpecAuto == InitGet /\ [][NextAuto]_vars

\* the queue is loaded and played, every track that plays ends at some time,
\* and the polls go on
SpecAutoLive == SpecAuto /\ WF_vars(NextAuto)

\* ------------------------------------------- a caller that keeps Cartridges
\* the Cartridges the caller keeps at most
MaxHeld == 2

\* read_cartridge(path); the caller keeps the Cartridge it returned, here
\* with the archive that this call validated
identifies ==
    /\ Len(trace) < MaxHeld
    /\ \E cartridge_id \in Paths :
           LET end == reader_read_cartridge(reader, scratch, cartridge_id)
           IN /\ ReaderServed("read_cartridge", cartridge_id, end.reader, end.scratch,
                              end.out, released)
              /\ trace' = IF end.out.cartridge # None
                          THEN Append(trace, << end.out.cartridge[1],
                                                 Path(cartridge_id).absolute >>)
                          ELSE trace
    /\ UNCHANGED <<pure, cli, subject, threads, host>>
    /\ UNCHANGED playerVars

\* load_album_from_cartridge(c) with a Cartridge c the caller kept; ret.arg
\* names the archive validated by the read_cartridge that returned c
loads_held ==
    /\ \E i \in DOMAIN trace :
           \E end \in reader_load_album(reader, scratch, trace[i][1]) :
               ReaderServed("load_album_from_cartridge", trace[i][2], end.reader,
                            end.scratch, end.out, released)
    /\ UNCHANGED <<pure, cli, hostVars>>
    /\ UNCHANGED playerVars

NextHeld ==
    \/ identifies
    \/ loads_held

SpecHeld == InitGet /\ [][NextHeld]_vars

\* ------------------------------------------- PlaytJSApi loading a cartridge
\* the queue entries that stand for the songs of the album: as many as the
\* album has, up to two; the directory they lie in is host.backing
queued(album) ==
    IF Len(album.songs) = 0 THEN <<>>
    ELSE IF Len(album.songs) = 1 THEN << Song1 >>
    ELSE << Song1, Song2 >>

\* _load_file returned or raised: r is the service, rd the reader that
\* self._current_reader holds, fs the scratch space, api the host object
HostReturn(r, rd, fs, api) ==
    /\ Served(r, "load_file")
    /\ reader' = rd
    /\ scratch' = fs
    /\ host' = api
    /\ UNCHANGED <<aliased, ret, released, pure, cli, subject, threads, trace>>

\* PlaytJSApi._load_file(file_path)
load_file ==
    \E file_path \in Paths :
        LET path == Path(file_path)
            quiet == [Self EXCEPT !.log = <<>>]
            old == IF host.current_reader
                   THEN remove_all(scratch,
                                   {reader.temp_dirs[cid] : cid \in Cids} \ {NoDir})
                   ELSE [fs |-> scratch, error |-> NoError]
            kept == [host EXCEPT !.current_reader = TRUE]
            read == reader_read_cartridge(ReaderInit, old.fs, file_path)
            cartridge == read.out.cartridge
        IN IF ~path.exists \/ lower(path.suffix) # ".playt"
           THEN HostReturn(quiet, reader, scratch, host)
           ELSE IF old.error # NoError
           THEN HostReturn(raise(quiet, old.error), reader, old.fs, host)
           ELSE IF read.out.raised # NoError
           THEN HostReturn(raise(quiet, read.out.raised), read.reader, read.scratch, kept)
           ELSE IF falsy(cartridge)
           THEN HostReturn(quiet, read.reader, read.scratch, kept)
           ELSE \E load \in reader_load_album(read.reader, read.scratch, cartridge[1]) :
                    LET album == load.out.album
                    IN IF load.out.raised # NoError
                       THEN HostReturn(raise(quiet, load.out.raised), load.reader,
                                       load.scratch, kept)
                       ELSE IF falsy(album)
                       THEN HostReturn(quiet, load.reader, load.scratch, kept)
                       ELSE HostReturn(
                                svc_play(svc_load_album(svc_stop(quiet),
                                                        queued(album[1]))),
                                load.reader, load.scratch,
                                [kept EXCEPT !.backing = load.out.created])

\* the commands of PlaytJSApi, one at a time
NextHost ==
    \/ load_file
    \/ next
    \/ stop

SpecHost == InitGet /\ [][NextHost]_vars

\* the calls on one PlaytFileCartridgeReader, made one at a time
NextLoader ==
    \/ read_cartridge
    \/ load_album_from_cartridge
    \/ cleanup

SpecLoader == InitGet /\ [][NextLoader]_vars

TypeOK ==
    /\ queue \in SongLists
    /\ current_index \in -1..(MaxLen - 1)
    /\ current_song \in {None} \cup {Some(x) : x \in Songs}
    /\ aliased \in BOOLEAN
    /\ audio_player.state \in {"idle", "playing", "paused", "stopped"}
    /\ audio_player.process \in {"none", "running", "suspended", "exited"}
    /\ posix \in BOOLEAN
    /\ got.list \in SongLists
    /\ got.live = FALSE

\* ------------------------------------------------------------------ claims
Loads == {"load_queue", "load_album"}

CallerOps == {"caller_append", "caller_remove", "caller_clear"}

\* C1: after any sequence of PlayerService calls made one at a time, the
\* current index is -1 or a valid index into the current queue.
C1_IndexInRange ==
    current_index = -1 \/ (0 <= current_index /\ current_index < Len(queue))

\* next() has moved the selection to the last position of a longer queue
C1_Witness ==
    /\ lastOp = "next"
    /\ current_index >= 1
    /\ current_index = Len(queue) - 1

\* C2: the current track is non-null exactly when the current index is >= 0,
\* and a non-null current track is the queue element at the current index.
C2_TrackMatchesIndex ==
    /\ current_song # None <=> current_index >= 0
    /\ current_song # None =>
           /\ current_index < Len(queue)
           /\ SongEq(current_song[1], queue[current_index + 1])

\* previous() has moved the selection back inside a queue of different tracks
C2_Witness ==
    /\ lastOp = "previous"
    /\ pre_index = 1
    /\ current_index = 0
    /\ current_song = Some(queue[1])
    /\ ~SongEq(queue[1], queue[2])

\* C3: load_queue and load_album, from any prior state, leave index -1 and no
\* current track, make no backend play call and leave the backend as it was.
C3_LoadNeverPlays ==
    [][lastOp' \in Loads =>
          /\ current_index' = -1
          /\ current_song' = None
          /\ \A i \in 1..Len(calls') : calls'[i].name # "play"
          /\ audio_player' = audio_player]_vars

\* a non-empty queue was loaded while a track was selected and playing
C3_Witness ==
    /\ lastOp \in Loads
    /\ pre_index >= 0
    /\ audio_player.state = "playing"
    /\ queue # <<>>
    /\ current_index = -1

\* C4: when the caller changes the list it gave to load_queue, get_queue()
\* and the current index stay as they were.
C4_QueueIsPrivateCopy ==
    [][lastOp' \in CallerOps =>
          /\ get_queue' = get_queue
          /\ current_index' = current_index]_vars

\* C5: with nothing selected and a non-empty queue, play() selects index 0,
\* makes exactly one backend call, play of the first track's file path, then
\* emits track_started with that track, which is then the current track.
C5_PlaySelectsFirst ==
    [][(lastOp' = "play" /\ current_song = None /\ queue # <<>>) =>
          /\ current_index' = 0
          /\ log' = << Call("play", queue[1].file_path, 0),
                       Event("track_started", Some(queue[1]), 0) >>
          /\ get_current_song' = Some(queue[1])
          /\ queue' = queue]_vars

\* play() ran with nothing selected on a queue of two or more tracks
C5_Witness ==
    /\ lastOp = "play"
    /\ pre_index = -1
    /\ current_index = 0
    /\ Len(queue) >= 2
    /\ calls = << Call("play", queue[1].file_path, 0) >>

\* C6: on a non-empty queue with index i not the last index (i = -1 included),
\* next() sets the index to i+1, calls backend play with the path of
\* queue[i+1], emits track_started for it and no queue_ended, and leaves the
\* queue as it was.
C6_NextAdvances ==
    [][(lastOp' = "next" /\ queue # <<>> /\ current_index < Len(queue) - 1) =>
          /\ current_index' = current_index + 1
          /\ current_song' = Some(queue[current_index + 2])
          /\ log' = << Call("play", queue[current_index + 2].file_path, 0),
                       Event("track_started", Some(queue[current_index + 2]), 0) >>
          /\ queue' = queue]_vars

\* next() ran with nothing selected and selected the first track
C6_Witness ==
    /\ lastOp = "next"
    /\ pre_index = -1
    /\ current_index = 0
    /\ Len(queue) >= 2
    /\ emitted = << Event("track_started", Some(queue[1]), 0) >>

\* C7: at the last index of a non-empty queue, next() calls backend stop,
\* emits track_stopped for the selected track and then queue_ended with a
\* null payload, and ends with no current track and index -1 (no wrap-around).
C7_NextAtEndStops ==
    [][(lastOp' = "next" /\ queue # <<>> /\ current_index = Len(queue) - 1) =>
          /\ log' = << Call("stop", NoFile, 0),
                       Event("track_stopped", current_song, 0),
                       Event("queue_ended", None, 0) >>
          /\ current_song # None
          /\ current_song' = None
          /\ current_index' = -1
          /\ queue' = queue]_vars

\* next() ran on the last track of a queue of two or more tracks
C7_Witness ==
    /\ lastOp = "next"
    /\ pre_index = Len(queue) - 1
    /\ pre_index >= 1
    /\ current_index = -1
    /\ Len(emitted) = 2
    /\ emitted[2] = Event("queue_ended", None, 0)

\* C8: previous() with the track at index 0 selected calls backend play with
\* the file path of that same track and emits track_started for it; index and
\* current track stay as they were.
C8_PreviousAtStartRestarts ==
    [][(lastOp' = "previous" /\ current_index = 0 /\ current_song # None) =>
          /\ log' = << Call("play", current_song[1].file_path, 0),
                       Event("track_started", current_song, 0) >>
          /\ current_index' = 0
          /\ current_song' = current_song
          /\ queue' = queue]_vars

\* previous() ran on the first track of a queue and called the backend
\* (the backend is playing in this state)
C8_Witness ==
    /\ lastOp = "previous"
    /\ pre_index = 0
    /\ current_index = 0
    /\ Len(queue) >= 2
    /\ calls = << Call("play", queue[1].file_path, 0) >>
    /\ audio_player.state = "playing"

\* C9: pause() while the backend reports not-playing makes no backend call
\* but the is_playing() query, emits nothing, leaves index, current track and
\* queue as they were, and the backend still reports not-playing afterwards.
C9_PauseWhenNotPlayingIsNoop ==
    [][(lastOp' = "pause" /\ ~ff_is_playing(audio_player)) =>
          /\ log' = << Call("is_playing", NoFile, 0) >>
          /\ current_index' = current_index
          /\ current_song' = current_song
          /\ queue' = queue
          /\ ~ff_is_playing(audio_player')]_vars

\* pause() ran on a selected track whose playback was already paused
C9_Witness ==
    /\ lastOp = "pause"
    /\ log = << Call("is_playing", NoFile, 0) >>
    /\ audio_player.state = "paused"
    /\ current_song # None

\* C10: stop() calls backend stop exactly once, emits track_stopped with the
\* previously selected track exactly when a track was selected, and ends with
\* no current track and index -1.
C10_StopAlwaysClears ==
    [][lastOp' = "stop" =>
          /\ log' = IF current_song # None
                    THEN << Call("stop", NoFile, 0),
                            Event("track_stopped", current_song, 0) >>
                    ELSE << Call("stop", NoFile, 0) >>
          /\ current_song' = None
          /\ current_index' = -1
          /\ queue' = queue]_vars

\* stop() ran with nothing selected and still called the backend
C10_Witness ==
    /\ lastOp = "stop"
    /\ pre_index = -1
    /\ log = << Call("stop", NoFile, 0) >>
    /\ current_index = -1
    /\ queue # <<>>

\* C11: check_playback_status() reads the backend state once; with a track
\* selected and the state "idle" it then does what next() does (advance and
\* play, or at the last index stop and queue_ended); in every other case it
\* makes no further backend call, emits nothing and leaves index, current
\* track and queue as they were.
C11_PollAdvancesOnlyWhenIdle ==
    [][lastOp' = "check_playback_status" =>
          LET idle == ff_get_state(audio_player) = "idle"
              query == Call("get_state", NoFile, 0)
          IN /\ queue' = queue
             /\ IF current_song # None /\ idle
                THEN IF current_index < Len(queue) - 1
                     THEN /\ current_index' = current_index + 1
                          /\ current_song' = Some(queue[current_index + 2])
                          /\ log' = << query,
                                       Call("play", queue[current_index + 2].file_path, 0),
                                       Event("track_started",
                                             Some(queue[current_index + 2]), 0) >>
                     ELSE /\ current_index' = -1
                          /\ current_song' = None
                          /\ log' = << query,
                                       Call("stop", NoFile, 0),
                                       Event("track_stopped", current_song, 0),
                                       Event("queue_ended", None, 0) >>
                ELSE /\ current_index' = current_index
                     /\ current_song' = current_song
                     /\ log' = << query >>]_vars

\* a poll found the first track finished and started the second
C11_Witness ==
    /\ lastOp = "check_playback_status"
    /\ pre_index = 0
    /\ current_index = 1
    /\ Len(log) = 3
    /\ log[2] = Call("play", queue[2].file_path, 0)

\* C14: seek(p) calls backend seek(p) exactly once, selected track or not,
\* then emits seeked with position p and the current track (null when none);
\* index, current track and queue stay as they were.
C14_SeekAlwaysDelegates ==
    [][lastOp' = "seek" =>
          /\ \E p \in Positions :
                 log' = << Call("seek", NoFile, p), Event("seeked", current_song, p) >>
          /\ current_index' = current_index
          /\ current_song' = current_song
          /\ queue' = queue]_vars

\* seek(7) ran with no track selected
C14_Witness ==
    /\ lastOp = "seek"
    /\ current_song = None
    /\ queue # <<>>
    /\ log = << Call("seek", NoFile, 7), Event("seeked", None, 7) >>

\* C12: in the events an observer attached since construction receives, in
\* the order the operations emit them, every track_paused carries the track
\* of the last track_started, with no load and no stop after that one, and
\* every track_started comes after a queue_loaded or album_loaded.
C12_EventOrder ==
    [][\A k \in 1..Len(log') :
          LET seen == HistFold(history, SubSeq(log', 1, k - 1))
          IN /\ (log'[k].kind = "event" /\ log'[k].name = "track_paused") =>
                    /\ log'[k].data # None
                    /\ seen.started = log'[k].data
             /\ (log'[k].kind = "event" /\ log'[k].name = "track_started") =>
                    seen.loaded]_vars

\* pause() emitted track_paused for the second track, which next() had started
C12_Witness ==
    /\ lastOp = "pause"
    /\ current_index = 1
    /\ emitted = << Event("track_paused", current_song, 0) >>
    /\ history.started = current_song
    /\ history.loaded

\* C13: a check_playback_status() made after play(), next() or previous()
\* called backend play, while the backend has not yet begun to play and still
\* reports "idle", does not move to another track and emits no queue_ended.
C13_NoSkipBeforeAudioStarts ==
    [][(/\ lastOp' = "check_playback_status"
        /\ current_song # None
        /\ audio_player.player = "Opening") =>
          /\ current_index' = current_index
          /\ current_song' = current_song
          /\ \A k \in 1..Len(log') : log'[k].name # "queue_ended"]_vars

ServiceOps ==
    {"play", "pause", "stop", "next", "previous", "seek", "set_volume",
     "check_playback_status"}

\* C16: when a backend call inside an operation raises, that call is the last
\* thing the operation does (no event, no second call, no retry) and the
\* operation ends with the very error the backend raised.
C16_BackendErrorsPropagate ==
    [][lastOp' \in ServiceOps =>
          /\ \A k \in 1..Len(log') :
                 log'[k].kind = "raise" =>
                     /\ k = Len(log')
                     /\ k > 1
                     /\ log'[k - 1].kind = "call"
                     /\ raised' = log'[k].name
          /\ raised' # NoError =>
                 /\ log' # <<>>
                 /\ log'[Len(log')].kind = "raise"
                 /\ raised' \in BackendErrors]_vars

\* next() called backend play, which raised; the error left next()
C16_Witness ==
    /\ lastOp = "next"
    /\ raised = "OSError"
    /\ Len(log) = 2
    /\ log[1].name = "play"
    /\ log[2] = Raised("OSError")

\* C17: an FFmpegAudioPlayer never has two of its ffplay processes alive at
\* once, not even between the steps of one call: play, seek and set_volume
\* end the old process before they start the new one.
C17_OneProcessAtMost ==
    /\ audio_player.alive <= 1
    /\ audio_player.peak <= 1
    /\ audio_player.alive = 1 <=> audio_player.process \in {"running", "suspended"}

\* play(file) was called on a backend that was playing the other file
C17_Witness ==
    /\ lastOp = "ff_play"
    /\ log[1].data = << "playing" >>
    /\ audio_player.current_file = log[1].file
    /\ audio_player.process = "running"
    /\ audio_player.alive = 1

HolderOps == {"holder_append", "holder_remove", "holder_clear"}

\* C15: get_queue() returns a copy: it changes nothing, the list it returns
\* has the queue's elements, editing that list leaves queue, index and
\* current track as they were, and two get_queue() calls with no load between
\* them return equal lists.
C15_GetQueueIsACopy ==
    [][/\ lastOp' = "get_queue" =>
              /\ got'.returned = Some(queue)
              /\ queue' = queue /\ current_index' = current_index
              /\ current_song' = current_song
              /\ got'.earlier # None => got'.returned = got'.earlier
       /\ lastOp' \in HolderOps =>
              /\ got'.list # got.list
              /\ queue' = queue /\ current_index' = current_index
              /\ current_song' = current_song]_vars

\* the caller asked for the queue twice while a track was selected and then
\* emptied the list it got
C15_Witness ==
    /\ lastOp = "holder_clear"
    /\ got.earlier # None
    /\ got.returned = Some(queue)
    /\ got.list = <<>>
    /\ queue # <<>>
    /\ current_song # None

\* a path that read_cartridge accepts: it exists, its extension is .playt in
\* any case, it opens as an archive and lists at least one entry
Identifiable(path) ==
    /\ Path(path).exists
    /\ Path(path).suffix \in {".playt", ".PLAYT"}
    /\ Path(path).zip \in {"valid", "torn"}
    /\ Path(path).entries # {}

\* C18: read_cartridge(path) returns a Cartridge exactly for a path that
\* exists, ends in .playt in any case and opens as an archive with an entry;
\* otherwise it returns None, raises nothing and records nothing. On success
\* the id is the file name's stem and the absolute path is recorded under it.
C18_ReadCartridge ==
    [][ret'.op = "read_cartridge" =>
          /\ ret'.raised = NoError
          /\ scratch' = scratch
          /\ reader'.temp_dirs = reader.temp_dirs
          /\ ret'.cartridge # None <=> Identifiable(ret'.arg)
          /\ ret'.cartridge = None => reader' = reader
          /\ ret'.cartridge # None =>
                 /\ ret'.cartridge = Some(Path(ret'.arg).stem)
                 /\ reader'.file_paths =
                        [reader.file_paths EXCEPT
                             ![Path(ret'.arg).stem] = Path(ret'.arg).absolute]]_vars

\* the relative path one.playt was identified: the id is one, the recorded
\* path is the absolute one
C18_Witness ==
    /\ ret.op = "read_cartridge"
    /\ ret.arg = "one.playt"
    /\ ret.cartridge = Some("one")
    /\ reader.file_paths["one"] = "/a/one.playt"

\* C19: load_album_from_cartridge for an id with no recorded path (never
\* identified, or released since) returns None, raises nothing, makes no
\* scratch directory and leaves both maps as they were; a released id has no
\* recorded path until read_cartridge identifies it again.
C19_LoadNeedsIdentify ==
    [][/\ (ret'.op = "load_album_from_cartridge"
           /\ reader.file_paths[ret'.arg] = NoPath) =>
              /\ ret'.album = None
              /\ ret'.raised = NoError
              /\ ret'.created = NoDir
              /\ scratch' = scratch
              /\ reader' = reader
       /\ \A cid \in released' : reader'.file_paths[cid] = NoPath
       /\ \A cid \in Cids :
              (cid \in released /\ cid \notin released') =>
                  (ret'.op = "read_cartridge" /\ ret'.cartridge = Some(cid))]_vars

\* a load was asked for an id that cleanup had released
C19_Witness ==
    /\ ret.op = "load_album_from_cartridge"
    /\ ret.arg \in released
    /\ ret.album = None
    /\ ret.created = NoDir

\* no file directly at the top level, and none directly in a top-level
\* directory other than the skipped ones, has an audio suffix
NoAudio(entries) ==
    \A e \in entries :
        (\/ e.dir = <<>>
         \/ (Len(e.dir) = 1 /\ e.dir[1] # "__MACOSX")) =>
            lower(e.suffix) \notin AUDIO_EXTENSIONS

\* C20: when the extracted archive has no audio file at the top level and
\* none in an eligible top-level subdirectory, load_album_from_cartridge
\* returns None and the scratch directory it made is gone when it returns.
C20_NoAudioLeavesNoScratch ==
    [][(/\ ret'.op = "load_album_from_cartridge"
        /\ ret'.created # NoDir
        /\ NoAudio(Path(reader.file_paths[ret'.arg]).entries)) =>
          /\ ret'.album = None
          /\ ret'.raised = NoError
          /\ ret'.created \notin scratch.dirs
          /\ ret'.created \notin scratch'.dirs]_vars

\* two.PLAYT, which holds audio only under __MACOSX and two levels down, was
\* extracted and its scratch directory removed
C20_Witness ==
    /\ ret.op = "load_album_from_cartridge"
    /\ ret.arg = "two"
    /\ ret.album = None
    /\ ret.created # NoDir
    /\ ret.created \notin scratch.dirs

C25_SegmentsAsTheyAre ==
    pure.done =>
        LET filename == pure.args[1]
            default_album == pure.args[2]
            parts == split(filename)
            title == pure.result[1]
            artist == pure.result[2]
            album == pure.result[3]
        IN /\ Len(parts) >= 3 =>
                  /\ artist = parts[1]
                  /\ album = parts[2]
                  /\ title = join(SubSeq(parts, 3, Len(parts)))
           /\ Len(parts) = 2 =>
                  /\ artist = parts[1]
                  /\ title = parts[2]
                  /\ album = default_album
           /\ Len(parts) < 2 =>
                  /\ artist = UnknownArtist
                  /\ title = filename
                  /\ album = default_album

\* the lengths n >= 1 for which the n tokens of s after the first skip are in class
Runs(s, skip, class) ==
    {n \in 1..(Len(s) - skip) : \A i \in (skip + 1)..(skip + n) : s[i] \in class}

Longest(lengths) == CHOOSE n \in lengths : \A m \in lengths : m <= n

\* s without its leading track number: a run of digits and the separator
\* characters after it, if s starts with both
Unnumbered(s) ==
    IF Runs(s, 0, DigitTokens) = {}
    THEN s
    ELSE LET digits == Longest(Runs(s, 0, DigitTokens))
         IN IF Runs(s, digits, SeparatorTokens) = {}
            THEN s
            ELSE SubSeq(s, digits + Longest(Runs(s, digits, SeparatorTokens)) + 1,
                        Len(s))

\* C25 amended: the same three cases, with the title taken without a leading
\* track number (digits followed by spaces, dots, hyphens or underscores) and
\* title, artist and album in composed (NFC) form.
C25_ParseMetadata ==
    pure.done =>
        LET filename == pure.args[1]
            default_album == pure.args[2]
            parts == split(filename)
            title == pure.result[1]
            artist == pure.result[2]
            album == pure.result[3]
        IN /\ join(parts) = filename
           /\ \A k \in 1..Len(parts) : \A i \in 1..Len(parts[k]) : parts[k][i] # Dash
           /\ Len(parts) >= 3 =>
                  /\ artist = NFC(parts[1])
                  /\ album = NFC(parts[2])
                  /\ title = NFC(Unnumbered(join(SubSeq(parts, 3, Len(parts)))))
           /\ Len(parts) = 2 =>
                  /\ artist = NFC(parts[1])
                  /\ title = NFC(Unnumbered(parts[2]))
                  /\ album = NFC(default_album)
           /\ Len(parts) < 2 =>
                  /\ artist = UnknownArtist
                  /\ title = NFC(Unnumbered(filename))
                  /\ album = NFC(default_album)

\* "e - 01.A" with the e decomposed was parsed: the artist is the composed e,
\* the title is A without its number, the album is the cartridge id
C25_Witness ==
    /\ pure.done
    /\ pure.fn = "_parse_metadata"
    /\ pure.args = << << "e_nfd", Dash, "01", ".", "A" >>, << "one" >> >>
    /\ pure.result = << << "A" >>, << "e_nfc" >>, << "one" >> >>

\* C22: when the duration probe fails for a file (the tool cannot be launched,
\* exits with an error, or prints no number), load_album_from_cartridge
\* still returns the album with every audio file found, exactly the tracks
\* whose probe failed have no duration, and the scratch directory is kept.
C22_ProbeFailureIsAbsorbed ==
    [][(/\ ret'.op = "load_album_from_cartridge"
        /\ \E i \in DOMAIN ret'.probes : ret'.probes[i] # "ok") =>
          /\ ret'.raised = NoError
          /\ ret'.album # None
          /\ Len(ret'.album[1].songs) = Len(ret'.probes)
          /\ \A i \in DOMAIN ret'.probes :
                 (ret'.album[1].songs[i].duration_secs = None) <=> (ret'.probes[i] # "ok")
          /\ ret'.created \in scratch'.dirs
          /\ reader'.temp_dirs[ret'.arg] = ret'.created]_vars

\* C23: cleanup(id) deletes the scratch directory recorded for id and takes
\* id out of both maps, leaving the other ids alone; cleanup() does so for
\* every id, leaving both maps empty and no recorded directory on disk.
C23_CleanupReleases ==
    [][ret'.op = "cleanup" =>
          /\ ret'.raised = NoError
          /\ ret'.arg # NoCid =>
                 /\ reader'.temp_dirs[ret'.arg] = NoDir
                 /\ reader'.file_paths[ret'.arg] = NoPath
                 /\ reader.temp_dirs[ret'.arg] \notin scratch'.dirs
                 /\ scratch'.dirs = scratch.dirs \ {reader.temp_dirs[ret'.arg]}
                 /\ \A cid \in Cids \ {ret'.arg} :
                        /\ reader'.temp_dirs[cid] = reader.temp_dirs[cid]
                        /\ reader'.file_paths[cid] = reader.file_paths[cid]
          /\ ret'.arg = NoCid =>
                 /\ \A cid \in Cids :
                        /\ reader'.temp_dirs[cid] = NoDir
                        /\ reader'.file_paths[cid] = NoPath
                        /\ reader.temp_dirs[cid] \notin scratch'.dirs
                 /\ scratch'.dirs = scratch.dirs \ {reader.temp_dirs[cid] : cid \in Cids}]_vars

\* cleanup("one") deleted the directory of the loaded album and both entries
C23_Witness ==
    /\ ret.op = "cleanup"
    /\ ret.arg = "one"
    /\ ret.removed # {}
    /\ "one" \in released
    /\ reader.temp_dirs["one"] = NoDir
    /\ reader.file_paths["one"] = NoPath

\* C24: cleanup never raises, whether the id was never seen, identified but
\* never loaded, or loaded with the directory already removed by the load;
\* the second of two identical cleanup calls in a row changes nothing.
C24_CleanupIdempotent ==
    [][ret'.op = "cleanup" =>
          /\ ret'.raised = NoError
          /\ ret'.repeated =>
                 /\ reader' = reader
                 /\ scratch' = scratch
                 /\ released' = released
                 /\ ret'.removed = {}]_vars

\* cleanup("two") was called twice in a row after two.PLAYT was identified
C24_Witness ==
    /\ ret.op = "cleanup"
    /\ ret.arg = "two"
    /\ ret.repeated
    /\ "two" \in released
    /\ ret.raised = NoError

InTrackOrder(songs, ordered) ==
    LET numbered(s) == s.track_number # NoNumber
    IN /\ Len(ordered) = Len(songs)
       /\ \A s \in AlbumSongs :
              Cardinality({i \in DOMAIN ordered : ordered[i] = s})
                  = Cardinality({i \in DOMAIN songs : songs[i] = s})
       /\ \A i, j \in DOMAIN ordered :
              i < j =>
                  /\ numbered(ordered[j]) => numbered(ordered[i])
                  /\ numbered(ordered[i]) /\ numbered(ordered[j])
                         => ordered[i].track_number <= ordered[j].track_number
                  /\ ordered[i].track_number = ordered[j].track_number
                         => ordered[i].title <= ordered[j].title

\* C27: Album.ordered_songs() returns a permutation of the album's songs in
\* which every song with a track number comes before every song without
\* one, the numbered songs are in ascending order of track number whatever
\* the numbers are, songs with the same track number (or both without) are
\* in title order, and the album's own list is left as it was
C27_OrderedSongs ==
    [][pure.fn = "ordered_songs" =>
        /\ pure'.args = pure.args
        /\ InTrackOrder(pure.args[1], pure'.result)]_vars

\* the same holds of the albums whose track numbers are all below the key
\* that ordered_songs gives to a song without a number
OrderedSongsBelowKey ==
    [][pure.fn = "ordered_songs"
         /\ (\A i \in DOMAIN pure.args[1] :
                 pure.args[1][i].track_number < UnknownTrackKey) =>
        /\ pure'.args = pure.args
        /\ InTrackOrder(pure.args[1], pure'.result)]_vars

\* why loading what was typed must fail: there is no such file, the file is
\* there and named .playt but is no archive that extracts, or it extracts
\* and has no audio file where the reader looks; "none" otherwise
FailureKind(typed) ==
    LET file == Path(typed)
    IN IF ~file.exists THEN "missing"
       ELSE IF lower(file.suffix) # ".playt" THEN "none"
       ELSE IF extract_error(file) # NoError THEN "unreadable"
       ELSE IF NoAudio(file.entries) THEN "no content"
       ELSE "none"

\* C28: a missing file, an unreadable or corrupt archive, and a valid archive
\* with nothing to play each make _load_cartridge print a message of its
\* own: two loads that fail for different ones of these reasons print
\* different texts
C28_ReasonsHaveOwnMessages ==
    (/\ cli.text # NoText
     /\ cli.before[2] # NoText
     /\ FailureKind(cli.arg) # "none"
     /\ FailureKind(cli.before[1]) # "none"
     /\ FailureKind(cli.arg) # FailureKind(cli.before[1]))
        => cli.text # cli.before[2]

\* the three reader methods in the order _load_cartridge calls them
ReaderSteps == << "is_cartridge_available", "read_cartridge", "load_album_from_cartridge" >>

\* C29: _load_cartridge calls is_cartridge_available, read_cartridge and
\* load_album_from_cartridge of the reader in this order, calls none after
\* the first that fails, and calls PlayerService.load_album exactly when all
\* three succeeded; when it does not, queue, index and current song of the
\* player are as before
C29_LoadStepsInOrder ==
    [][lastOp' = "_load_cartridge" =>
        LET called == cli'.calls
            succeeded == Len(called) = 3 /\ \A i \in DOMAIN called : called[i].ok
        IN /\ Len(called) <= 3
           /\ \A i \in DOMAIN called :
                  /\ called[i].name = ReaderSteps[i]
                  /\ i < Len(called) => called[i].ok
           /\ cli'.reader => called # <<>>
           /\ (called # <<>> /\ Len(called) < 3) => ~called[Len(called)].ok
           /\ cli'.loaded <=> succeeded
           /\ cli'.loaded <=>
                  \E i \in DOMAIN log' :
                      log'[i].kind = "event" /\ log'[i].name = "album_loaded"
           /\ ~cli'.loaded =>
                  /\ queue' = queue
                  /\ current_index' = current_index
                  /\ current_song' = current_song]_vars

\* an album was loaded and its first track started; then an archive without
\* audio files was typed: the load stopped after load_album_from_cartridge
\* and the track is still the current one
C29_Witness ==
    /\ lastOp = "_load_cartridge"
    /\ cli.before = << "one.playt", "Loaded album" >>
    /\ cli.arg = "/a/two.PLAYT"
    /\ Len(cli.calls) = 3
    /\ ~cli.loaded
    /\ current_index = 0
    /\ current_song # None
    /\ Len(queue) = 2

\* C30: next() followed by previous() is a round trip: when the index i is
\* selected and is not the last of the queue, then after both calls the index
\* is i again, the current song is queue[i], and the last play call on the
\* backend and the last track_started event are for queue[i]
C30_NextPreviousRoundTrip ==
    [][(/\ lastOp' = "next_previous"
        /\ current_index >= 0
        /\ current_index < Len(queue) - 1) =>
        LET song == queue[current_index + 1]
            played == SelectSeq(log', LAMBDA e : e.kind = "call" /\ e.name = "play")
            started == SelectSeq(log', LAMBDA e : e.kind = "event"
                                                   /\ e.name = "track_started")
        IN /\ raised' = NoError
           /\ queue' = queue
           /\ current_index' = current_index
           /\ current_song' = Some(song)
           /\ Len(played) = 2
           /\ played[Len(played)].file = song.file_path
           /\ Len(started) = 2
           /\ started[Len(started)].data = Some(song)]_vars

\* with a.mp3 selected in the queue a.mp3, b.mp3, next() started b.mp3 and
\* previous() started a.mp3 again
C30_Witness ==
    /\ lastOp = "next_previous"
    /\ queue = << Song1, Song2 >>
    /\ pre_index = 0
    /\ current_index = 0
    /\ current_song = Some(Song1)
    /\ Len(calls) >= 2
    /\ calls[1] = Call("play", "b.mp3", 0)
    /\ calls[Len(calls)] = Call("play", "a.mp3", 0)

\* C31: after any sequence of attach and detach calls, notify delivers the
\* event exactly once to every observer attached since its last detach,
\* however often it was attached, and not at all to every other observer;
\* detach of an observer that is not attached changes nothing
C31_NotifyOncePerAttached ==
    [][/\ subject'.op[1] = "notify" =>
              \A o \in Observers :
                  subject'.received[o] =
                      IF o \in subject.attached THEN << subject'.op[2] >> ELSE <<>>
       /\ (subject'.op[1] = "detach" /\ subject'.op[2] \notin subject.attached) =>
              subject'.observers = subject.observers]_vars

\* the log and the ui observer are attached, the led is not: queue_ended
\* went once to each of the two
C31_Witness ==
    /\ subject.op = << "notify", "queue_ended" >>
    /\ subject.attached = {"log", "ui"}
    /\ subject.observers = << "ui", "log" >>
    /\ subject.received["ui"] = << "queue_ended" >>
    /\ subject.received["log"] = << "queue_ended" >>
    /\ subject.received["led"] = <<>>

\* C32: in the WebView host the calls into PlayerService are serialized: while
\* check_playback_status runs on the progress thread, no play, next,
\* previous, stop or load_album called through PlaytJSApi is running
C32_CallsAreSerialized ==
    ~(threads.poll.op = "check_playback_status" /\ threads.api.op # "idle")

\* C33: with check_playback_status interleaved statement by statement with
\* next, previous, stop and load_album of another thread, whenever no call
\* is under way the index is -1 or an index of the queue, and there is a
\* current song exactly if the index is not -1
C33_InterleavedSelectionConsistent ==
    (threads.api.op = "idle" /\ threads.poll.op \in {"idle", "dead"}) =>
        /\ current_index = -1 \/ (0 <= current_index /\ current_index < Len(queue))
        /\ (current_song # None) <=> (current_index >= 0)

\* track_started and queue_ended as trace shows them, in order
StartsAndEnd ==
    SelectSeq(trace, LAMBDA e : e[1] \in {"track_started", "queue_ended"})

\* track_started for each position of the queue in order, then queue_ended
PlayedThrough ==
    [i \in 1..(Len(queue) + 1) |->
         IF i <= Len(queue) THEN << "track_started", Some(queue[i]) >>
         ELSE << "queue_ended", None >>]

\* C34: after play() on a loaded queue of one track or more, when every track
\* that is started comes to its end, nothing else is called and
\* check_playback_status is called again and again: track_started is
\* emitted for the positions of the queue once each and in order, then
\* queue_ended once, and the polls after that emit nothing and give the
\* backend no command
C34_PlaysQueueToItsEnd ==
    /\ [](lastOp \notin Loading =>
              /\ Len(StartsAndEnd) <= Len(PlayedThrough)
              /\ StartsAndEnd = SubSeq(PlayedThrough, 1, Len(StartsAndEnd)))
    /\ <>[](StartsAndEnd = PlayedThrough)
    /\ [][(StartsAndEnd = PlayedThrough /\ lastOp' = "check_playback_status") =>
              /\ emitted' = <<>>
              /\ \A i \in DOMAIN calls' : calls'[i].name = "get_state"]_vars

\* three tracks were played one after the other and the queue has ended
C34_Witness ==
    /\ Len(queue) = 3
    /\ StartsAndEnd = PlayedThrough
    /\ lastOp = "check_playback_status"
    /\ emitted = <<>>
    /\ current_song = None
    /\ audio_player.process = "none"

\* C35: whenever the backend is playing a file, the service has a selected
\* track and the file path of that track is the file the backend plays
C35_BackendPlaysSelectedTrack ==
    backend_get_state(audio_player) = "playing" =>
        /\ current_song # None
        /\ current_song[1].file_path = audio_player.current_file

\* C40: FFmpegAudioPlayer.seek keeps the transport state: a paused player
\* stays paused and a playing one stays playing; with no current file, or
\* stopped or idle, seek changes nothing and starts no process
C40_SeekKeepsTransportState ==
    [][lastOp' = "ff_seek" =>
           /\ audio_player.state \in {"playing", "paused"} /\ audio_player.current_file # NoFile
                  => audio_player'.state = audio_player.state
           /\ audio_player.current_file = NoFile \/ audio_player.state \in {"stopped", "idle"}
                  => audio_player' = audio_player]_vars

\* the backend's play was called in the operation that just returned, and raised
PlayRaised(entries) ==
    /\ Len(entries) > 1
    /\ entries[Len(entries)].kind = "raise"
    /\ entries[Len(entries) - 1].kind = "call"
    /\ entries[Len(entries) - 1].name = "play"

\* C36: when the backend's play raises in play(), next() or previous(), the
\* index and the current track are what they were before the call and no
\* track_started is emitted
C36_FailedPlayChangesNothing ==
    [][(lastOp' \in {"play", "next", "previous"} /\ PlayRaised(log')) =>
           /\ current_index' = current_index
           /\ current_song' = current_song
           /\ \A k \in DOMAIN emitted' : emitted'[k].name # "track_started"]_vars

\* C37: after any sequence of read_cartridge, load_album_from_cartridge and
\* cleanup calls, also with one cartridge loaded more than once, every
\* scratch directory the loader made that still exists is recorded in its
\* map, so cleanup() leaves none behind
C37_NoScratchDirLeaks ==
    scratch.dirs \subseteq {reader.temp_dirs[cid] : cid \in Cids}

\* C38: load_album_from_cartridge(c) extracts the archive that was validated
\* by the read_cartridge call that returned c, also when another archive of
\* the same stem in another directory was identified in between
C38_LoadsTheValidatedArchive ==
    [][(ret'.op = "load_album_from_cartridge" /\ ret'.created # NoDir) =>
           reader.file_paths[Path(ret'.arg).stem] = ret'.arg]_vars

\* C39: in the WebView host the scratch directory of the queued files exists
\* whenever the queue is not empty; _load_file releases the reader it held
\* only when the queue is then replaced, also when the new cartridge fails
C39_QueuedFilesStay ==
    /\ [](queue # <<>> => host.backing \in scratch.dirs)
    /\ [][(lastOp' = "load_file" /\ scratch.dirs \ scratch'.dirs # {}) =>
              \E k \in DOMAIN emitted' : emitted'[k].name = "album_loaded"]_vars

====
